---- MODULE Spec2Model ----
(***************************************************************************)
(* Tournament synchronisation core of FlashCard_Audio.                     *)
(*                                                                         *)
(* Two transports carry the same tournament aggregate:                     *)
(*   - the peer transport (components/TournamentRoom.tsx): the host holds  *)
(*     the authoritative snapshot, followers send JOIN_REQUEST and         *)
(*     SUBMIT_ANSWER and receive STATE_UPDATE broadcasts;                  *)
(*   - the store transport (unnamed/part_000 + services/firebaseService):  *)
(*     every participant writes field paths of one shared document and     *)
(*     receives the merged document through a subscription.                *)
(* The variable transport selects which of the two a behaviour runs.       *)
(***************************************************************************)
EXTENDS Integers, Sequences, FiniteSets, TLC

VARIABLES
    transport,          \* "peer" | "store" | "score" | "replay" | "joins" | "writes" | "lobby" | "mcq" | "chat"
    \* ---- peer transport, host side
    tournament,         \* host's useState<Tournament>
    hostPeerOpen,       \* peer.on('open') has fired for the host
    clientConnections,  \* keys of clientConnectionsRef.current
    hostCrashed,        \* an updater threw: the host's React tree is gone
    \* ---- peer transport, follower side
    fstate,             \* follower -> "idle" | "connected" | "error" | "left"
    fname,              \* follower -> playerName prop
    ftournament,        \* follower -> <<>> (null) or <<snapshot>>
    toHost,             \* follower -> FIFO of messages on its connection to the host
    inbox,              \* follower -> FIFO of STATE_UPDATE payloads not yet handled
    hostDestroyed,      \* the host's room unmounted: its cleanup ran peer.destroy()
    \* ---- question timers of the followers (observed only when timed is TRUE)
    timed,
    fstart,             \* follower -> what last set questionStartTime: <<>> (still 0),
                        \*   <<"update", payload>> or <<"submit", index shown>>
    dropped,            \* TRUE once the host has ignored a SUBMIT_ANSWER (no current question)
    \* ---- history of the peer transport (kept only when hlog starts non-empty)
    hlog,               \* the snapshots the host went through, oldest first
    sent,               \* follower -> positions in hlog of the payloads in its inbox
    fpos,               \* follower -> position in hlog of the snapshot it applied last (0: none)
    \* ---- store transport
    doc,                \* the tournament document in the store (<<>> when there is none)
    sstate,             \* participant -> "lobby" | "room"
    sname,              \* participant -> playerName prop
    slocal,             \* participant -> <<>> (null) or <<last snapshot delivered, as its handlers read it>>
    spending,           \* participant -> FIFO of writes issued and not yet applied
    schecks,            \* participant -> number of checkAndFinishTournament calls waiting for getDoc
    finishApplied,      \* TRUE once the store has applied a finish write (status: finished)
    roomError,          \* participant -> <<>> (null) or <<message>>: the room's error state
    \* ---- the two lobbies (components/TournamentLobby.tsx, unnamed/part_002)
    nameInput,          \* lobby -> text of the name input (the lobby's playerName state)
    roomCode,           \* text of the room code input (peer lobby)
    error,              \* lobby -> <<>> (null) or <<message>>
    activeTournament,   \* peer lobby: <<>> (null) or <<session>>: the room is mounted
    joinedTournament,   \* store lobby: <<>> (null) or <<session>>: the room is mounted
    endpoints,          \* number of peer endpoints the mounted room holds open
    documents,          \* number of addDoc calls the store has received
    \* ---- multiple-choice state of the rooms (match modes)
    mcqOptions,         \* player -> the options its room shows, in rendering order
    selectedMcqId,      \* player -> <<>> (null) or <<id of the option clicked>>
    submitted,          \* player -> <<>> or <<what its last submission carried and showed>>
    \* ---- the chat (components/PublicChat.tsx), one component per user
    chatState,          \* user -> <<>> (null) or <<[hostId, players, messages]>>
    isHost,             \* user -> useState isHost
    peerRef,            \* user -> 0 (null) or the id of the endpoint peerRef.current holds
    peerOpen,           \* user -> peer.on('open') has fired for that endpoint
    roomCodeToJoin,     \* client -> the room code handleJoin read (0: none)
    hostConnectionRef,  \* client -> <<>> (null) or <<[to, open]>>: its connection to a host
    clientConnectionsRef, \* keys of the hosting component's clientConnectionsRef.current
    chatToHost,         \* client -> the messages its connection carries to the host
    chatToClient,       \* client -> the STATE_UPDATE payloads its connection carries to it
    closeAtHost,        \* ids of the connections whose close event the host has not handled
    closeAtClient,      \* client -> the close event of its connection has not been handled
    nextPeerId,         \* the id the signalling server gives the next endpoint
    chatClock,          \* Date.now(), counted in messages sent
    \* ---- scoring engine (pure function checks)
    scT, scCorrect, scApplied, scPeer, scPeerNext, scStore, scStoreNext

logVars == <<hlog, sent, fpos>>
peerVars == <<tournament, hostPeerOpen, clientConnections, hostCrashed,
              fstate, fname, ftournament, toHost, inbox, hostDestroyed, timed, dropped, fstart, logVars>>
storeVars == <<doc, sstate, sname, slocal, spending, schecks, finishApplied, roomError>>
scoreVars == <<scT, scCorrect, scApplied, scPeer, scPeerNext, scStore, scStoreNext>>
lobbyVars == <<nameInput, roomCode, error, activeTournament, joinedTournament, endpoints, documents>>
mcqVars == <<mcqOptions, selectedMcqId, submitted>>
chatVars == <<chatState, isHost, peerRef, peerOpen, roomCodeToJoin, hostConnectionRef,
              clientConnectionsRef, chatToHost, chatToClient, closeAtHost, closeAtClient,
              nextPeerId, chatClock>>
vars == <<transport, peerVars, storeVars, scoreVars, lobbyVars, mcqVars, chatVars>>

----------------------------------------------------------------------------
\* Bounds of the model

\* number of questions of a tournament (the program uses 5..10)
NumQuestions == 2
\* cap on the messages a follower has in flight to the host
MaxInFlight == 1
\* cap on the STATE_UPDATEs a follower has not yet handled
MaxInbox == 1
\* cap on the store requests (writes, finish-check reads) in flight at once
MaxPending == 2
\* cap on the length of the recorded history of host snapshots
MaxLog == 5
\* largest elapsed time (ms) the scoring checks enumerate
MaxElapsed == 20100
\* questions of the tournament the multiple-choice checks play
McqCards == 3
\* distractors shown next to the current question (the program draws 3)
McqDistractors == 1
\* answers of each player the multiple-choice checks follow
McqRounds == 1
\* cap on the endpoints the signalling server hands out in one run of the chat
MaxChatPeers == 3
\* cap on the messages typed and sent in one run of the chat
MaxChatMessages == 2

\* Program constants
MaxPoints == 1000
MsPerPoint == 20

HostName == "a"
Names == {"a", "b"}
Followers == {"f1", "f2"}
\* the followers that connect in the one-follower specifications
Solo == {"f1"}
HostPeerId == "H"
\* elapsed times (Date.now() - questionStartTime) the transports draw from
Times == {500, 30000}
GameTypes == {"imageToText", "audioToImage"}

Max(x, y) == IF x >= y THEN x ELSE y
Min(x, y) == IF x <= y THEN x ELSE y

----------------------------------------------------------------------------
\* Strings of the program: card identifiers (audio URLs) and card texts.
\* A text is capitalised in the deck ("Cap"); toLowerCase gives "low".

CardId(c) == [kind |-> "url", card |-> c, letters |-> "asis"]
CardText(c) == [kind |-> "word", card |-> c, letters |-> "Cap"]
toLowerCase(s) == IF s.kind = "word" THEN [s EXCEPT !.letters = "low"] ELSE s

Cards == 1..NumQuestions
Question(c) == [id |-> CardId(c), text |-> CardText(c)]

\* shuffleArray: an order of the given cards; the model draws from two of them
IdentityOrder == [i \in 1..NumQuestions |-> i]
ReverseOrder == [i \in 1..NumQuestions |-> NumQuestions + 1 - i]
Orders == {IdentityOrder, ReverseOrder}
QuestionsOf(o) == [i \in 1..NumQuestions |-> Question(o[i])]

\* shuffleArray(playable cards).slice(0, 10) after the deck changed: the playable
\* cards in some order, or nothing when the new deck has no playable card
DeckOutcomes == {QuestionsOf(o) : o \in Orders} \cup {<<>>}

\* what a participant can submit: an option id (match modes) or typed text
AnswerChoices(gameType) ==
    IF gameType \in {"audioToImage", "imageToAudio"}
    THEN {CardId(c) : c \in Cards}
    ELSE {toLowerCase(CardText(c)) : c \in Cards}
AllAnswers == UNION {AnswerChoices(g) : g \in GameTypes}

----------------------------------------------------------------------------
\* Player map helpers (JS object spread / delete)

Put(m, k, v) == [x \in (DOMAIN m) \cup {k} |-> IF x = k THEN v ELSE m[x]]
Remove(m, k) == [x \in (DOMAIN m) \ {k} |-> m[x]]
EmptyMap == [x \in {} |-> 0]

\* useState(null); a snapshot of a document that does not exist
Null == <<>>

NewPlayer(id, name) ==
    [id |-> id, name |-> name, score |-> 0, currentQuestionIndex |-> 0, isFinished |-> FALSE]

----------------------------------------------------------------------------
\* Peer transport: pure parts

\* host initialisation effect, for the playerName prop the lobby passed to the room
HostInitialStateOf(name, gameType, questions) ==
    [id |-> "", gameType |-> gameType, status |-> "waiting", questions |-> questions,
     players |-> Put(EmptyMap, name, NewPlayer(name, name)),
     creatorId |-> name]

\* host initialisation effect of the host the transport runs follow
HostInitialState(gameType, questions) == HostInitialStateOf(HostName, gameType, questions)

\* variants of the increment (the clamp dropped; the time term dropped), against
\* which the scoring properties are tested for sensitivity
scoreIncrementUnclamped(isCorrect, timeTaken) ==
    IF isCorrect THEN MaxPoints - (timeTaken \div MsPerPoint) ELSE 0

scoreIncrementFlat(isCorrect, timeTaken) ==
    IF isCorrect THEN MaxPoints ELSE 0

\* Math.max(0, 1000 - Math.floor(timeTaken / 20)) when correct, else 0
scoreIncrement(isCorrect, timeTaken) ==
    IF isCorrect THEN Max(0, MaxPoints - (timeTaken \div MsPerPoint)) ELSE 0

\* variant of the verdict that goes by the place of the selected option on the
\* host's screen instead of by its id alone (sensitivity test)
peerIsCorrectByPosition(prev, question, answer) ==
    /\ answer = question.id
    /\ mcqOptions[HostName] # <<>>
    /\ mcqOptions[HostName][1].id = answer

peerIsCorrect(prev, question, answer) ==
    IF prev.gameType \in {"audioToImage", "imageToAudio"}
    THEN answer = question.id
    ELSE toLowerCase(answer) = toLowerCase(question.text)

\* prev.players[pName] is undefined: reading .currentQuestionIndex throws
answerThrows(prev, pName) == pName \notin DOMAIN prev.players

\* variant of the finish rule that never ends the tournament (sensitivity test)
statusNeverFinished(prev, updatedPlayers) == prev.status

\* status: allFinished ? 'finished' : prev.status
statusAfterAnswer(prev, updatedPlayers) ==
    LET allFinished == \A n \in DOMAIN updatedPlayers : updatedPlayers[n].isFinished
    IN  IF allFinished THEN "finished" ELSE prev.status

\* handleAnswerSubmitted's updater, for a pName that is a key of the map
handleAnswerSubmitted(prev, pName, answer, timeTaken) ==
    LET playerState == prev.players[pName]
        idx == playerState.currentQuestionIndex
    IN  IF idx >= Len(prev.questions)
        THEN prev
        ELSE LET question == prev.questions[idx + 1]
                 inc == scoreIncrement(peerIsCorrect(prev, question, answer), timeTaken)
                 nextIndex == idx + 1
                 isFinished == nextIndex >= Len(prev.questions)
                 updatedPlayer == [playerState EXCEPT !.score = playerState.score + inc,
                                                      !.currentQuestionIndex = nextIndex,
                                                      !.isFinished = isFinished]
                 updatedPlayers == Put(prev.players, pName, updatedPlayer)
             IN  [prev EXCEPT !.players = updatedPlayers,
                              !.status = statusAfterAnswer(prev, updatedPlayers)]

\* JOIN_REQUEST updater
handleJoinRequest(prev, peerId, name) ==
    [prev EXCEPT !.players = Put(prev.players, name, NewPlayer(peerId, name))]

\* variant of the close updater that keeps every player (sensitivity test)
handleConnCloseKeepsAll(prev, peerId) == prev

\* conn.on('close') updater
handleConnClose(prev, peerId) ==
    LET found == {n \in DOMAIN prev.players : prev.players[n].id = peerId}
    IN  IF found = {} THEN prev
        ELSE LET n == CHOOSE x \in found : TRUE
             IN  [prev EXCEPT !.players = Remove(prev.players, prev.players[n].name)]

\* variant of the broadcast that skips follower f2 (sensitivity test)
broadcastSkippingOne(state, conns, boxes) ==
    [f \in Followers |->
        IF f \in conns /\ fstate[f] = "connected" /\ f # "f2" THEN Append(boxes[f], state) ELSE boxes[f]]

\* variant of the broadcast whose STATE_UPDATEs overtake the ones still in flight
\* (sensitivity test)
broadcastNewestFirst(state, conns, boxes) ==
    [f \in Followers |->
        IF f \in conns /\ fstate[f] = "connected" THEN <<state>> \o boxes[f] ELSE boxes[f]]

\* variant of the broadcast that sends every STATE_UPDATE twice (sensitivity test)
broadcastTwice(state, conns, boxes) ==
    [f \in Followers |->
        IF f \in conns /\ fstate[f] = "connected" THEN Append(Append(boxes[f], state), state) ELSE boxes[f]]

\* broadcastTournamentState: one STATE_UPDATE per registered connection
broadcastTournamentState(state, conns, boxes) ==
    [f \in Followers |->
        IF f \in conns /\ fstate[f] = "connected" THEN Append(boxes[f], state) ELSE boxes[f]]

\* every registered follower has room for one more STATE_UPDATE (while the history
\* is recorded its length is what limits the STATE_UPDATEs in flight)
InboxRoom ==
    \/ hlog # <<>>
    \/ \A f \in clientConnections : fstate[f] = "connected" => Len(inbox[f]) < MaxInbox

\* follower conn.on('data'): payload.status === 'playing' && questionStartTime === 0,
\* where questionStartTime is the value the handler's closure captured when the
\* P2P setup effect ran (0: the effect does not depend on it and never re-runs)
receivedSetsTimer(payload) ==
    LET questionStartTime == 0
    IN  payload.status = "playing" /\ questionStartTime = 0

\* the host's room is mounted and rendering
HostAlive == ~hostCrashed /\ ~hostDestroyed

\* room left in the recorded history
LogRoom == hlog = <<>> \/ Len(hlog) < MaxLog

\* the history gains the host's new snapshot, and each STATE_UPDATE sent its position
HostLog(conns) ==
    /\ hlog' = IF hlog = <<>> THEN hlog ELSE Append(hlog, tournament')
    /\ sent' = [f \in Followers |->
                  IF hlog # <<>> /\ f \in conns /\ fstate[f] = "connected"
                  THEN Append(sent[f], Len(hlog) + 1) ELSE sent[f]]
    /\ UNCHANGED fpos

----------------------------------------------------------------------------
\* Peer transport: events

JoinRequest(name) == [type |-> "JOIN_REQUEST", name |-> name]
SubmitAnswer(playerId, answer, timeTaken) ==
    [type |-> "SUBMIT_ANSWER", playerId |-> playerId, answer |-> answer, timeTaken |-> timeTaken]

\* the host's endpoint opens: the session identifier becomes the tournament id
HostPeerOpen ==
    /\ transport = "peer" /\ HostAlive /\ LogRoom /\ ~hostPeerOpen
    /\ hostPeerOpen' = TRUE
    /\ tournament' = [tournament EXCEPT !.id = HostPeerId]
    /\ inbox' = broadcastTournamentState(tournament', clientConnections, inbox)
    /\ UNCHANGED <<clientConnections, hostCrashed, fstate, fname, ftournament, toHost>>
    /\ HostLog(clientConnections)
    /\ UNCHANGED <<hostDestroyed, timed, dropped, fstart>>
    /\ UNCHANGED <<transport, storeVars, scoreVars, lobbyVars, mcqVars, chatVars>>

\* the flashcards prop changes (App's deck state is replaced or updated while the
\* room is mounted): the host initialisation effect runs again on the new deck
HostInitEffect(questions) ==
    /\ transport = "peer" /\ HostAlive /\ LogRoom /\ InboxRoom
    /\ tournament' = HostInitialState(tournament.gameType, questions)
    /\ inbox' = broadcastTournamentState(tournament', clientConnections, inbox)
    /\ UNCHANGED <<hostPeerOpen, clientConnections, hostCrashed, fstate, fname, ftournament, toHost>>
    /\ HostLog(clientConnections)
    /\ UNCHANGED <<hostDestroyed, timed, dropped, fstart>>
    /\ UNCHANGED <<transport, storeVars, scoreVars, lobbyVars, mcqVars, chatVars>>

\* "Start Game for Everyone" (rendered for the host in the waiting room)
HostStart ==
    /\ transport = "peer" /\ HostAlive /\ LogRoom /\ InboxRoom
    /\ tournament.status = "waiting"
    /\ tournament' = [tournament EXCEPT !.status = "playing"]
    /\ inbox' = broadcastTournamentState(tournament', clientConnections, inbox)
    /\ UNCHANGED <<hostPeerOpen, clientConnections, hostCrashed, fstate, fname, ftournament, toHost>>
    /\ HostLog(clientConnections)
    /\ UNCHANGED <<hostDestroyed, timed, dropped, fstart>>
    /\ UNCHANGED <<transport, storeVars, scoreVars, lobbyVars, mcqVars, chatVars>>

\* the gameplay screen is rendered: status playing, own player unfinished, a current question
CanAnswer(t, name) ==
    /\ t.status = "playing"
    /\ name \in DOMAIN t.players
    /\ ~t.players[name].isFinished
    /\ t.players[name].currentQuestionIndex < Len(t.questions)

\* submitAnswer on the host
HostSubmit(answer, timeTaken) ==
    /\ transport = "peer" /\ HostAlive /\ LogRoom /\ InboxRoom
    /\ CanAnswer(tournament, HostName)
    /\ answer \in AnswerChoices(tournament.gameType)
    /\ tournament' = handleAnswerSubmitted(tournament, HostName, answer, timeTaken)
    /\ inbox' = broadcastTournamentState(tournament', clientConnections, inbox)
    /\ UNCHANGED <<hostPeerOpen, clientConnections, hostCrashed, fstate, fname, ftournament, toHost>>
    /\ HostLog(clientConnections)
    /\ UNCHANGED <<hostDestroyed, timed, dropped, fstart>>
    /\ UNCHANGED <<transport, storeVars, scoreVars, lobbyVars, mcqVars, chatVars>>

\* a follower mounts its room: peer.connect(roomCode), the host registers the
\* connection, and the opened connection carries the JOIN_REQUEST
FollowerConnect(f, name) ==
    /\ transport = "peer" /\ HostAlive /\ hostPeerOpen
    /\ fstate[f] = "idle"
    /\ fstate' = [fstate EXCEPT ![f] = "connected"]
    /\ fname' = [fname EXCEPT ![f] = name]
    /\ clientConnections' = clientConnections \cup {f}
    /\ toHost' = [toHost EXCEPT ![f] = <<JoinRequest(name)>>]
    /\ UNCHANGED <<tournament, hostPeerOpen, hostCrashed, ftournament, inbox>>
    /\ UNCHANGED <<hostDestroyed, timed, dropped, fstart, logVars>>
    /\ UNCHANGED <<transport, storeVars, scoreVars, lobbyVars, mcqVars, chatVars>>

\* host conn.on('data')
HostReceive(f) ==
    /\ transport = "peer" /\ HostAlive /\ LogRoom /\ InboxRoom
    /\ f \in clientConnections
    /\ toHost[f] # <<>>
    /\ LET data == Head(toHost[f])
       IN  /\ toHost' = [toHost EXCEPT ![f] = Tail(toHost[f])]
           /\ IF data.type = "JOIN_REQUEST"
              THEN /\ tournament' = handleJoinRequest(tournament, f, data.name)
                   /\ inbox' = broadcastTournamentState(tournament', clientConnections, inbox)
                   /\ UNCHANGED hostCrashed
              ELSE IF answerThrows(tournament, data.playerId)
              THEN /\ hostCrashed' = TRUE
                   /\ UNCHANGED <<tournament, inbox>>
              ELSE /\ tournament' = handleAnswerSubmitted(tournament, data.playerId, data.answer, data.timeTaken)
                   /\ inbox' = IF tournament' = tournament
                               THEN inbox
                               ELSE broadcastTournamentState(tournament', clientConnections, inbox)
                   /\ UNCHANGED hostCrashed
    /\ UNCHANGED <<hostPeerOpen, clientConnections, fstate, fname, ftournament>>
    /\ IF Head(toHost[f]).type = "JOIN_REQUEST" \/ tournament' # tournament
       THEN HostLog(clientConnections)
       ELSE UNCHANGED logVars
    /\ dropped' = (dropped \/ (~hostCrashed' /\ Head(toHost[f]).type = "SUBMIT_ANSWER"
                                /\ tournament' = tournament))
    /\ UNCHANGED <<hostDestroyed, timed, fstart>>
    /\ UNCHANGED <<transport, storeVars, scoreVars, lobbyVars, mcqVars, chatVars>>

\* follower conn.on('data'): STATE_UPDATE replaces the local snapshot
FollowerReceive(f) ==
    /\ transport = "peer"
    /\ fstate[f] = "connected"
    /\ inbox[f] # <<>>
    /\ ftournament' = [ftournament EXCEPT ![f] = <<Head(inbox[f])>>]
    /\ inbox' = [inbox EXCEPT ![f] = Tail(inbox[f])]
    /\ UNCHANGED <<tournament, hostPeerOpen, clientConnections, hostCrashed, fstate, fname, toHost>>
    /\ fstart' = [fstart EXCEPT ![f] =
            IF timed /\ receivedSetsTimer(Head(inbox[f])) THEN <<"update", Head(inbox[f])>> ELSE fstart[f]]
    /\ sent' = [sent EXCEPT ![f] = IF hlog = <<>> THEN sent[f] ELSE Tail(sent[f])]
    /\ fpos' = [fpos EXCEPT ![f] = IF hlog = <<>> THEN fpos[f] ELSE Head(sent[f])]
    /\ UNCHANGED <<hostDestroyed, timed, dropped, hlog>>
    /\ UNCHANGED <<transport, storeVars, scoreVars, lobbyVars, mcqVars, chatVars>>

\* variant of the follower's submitAnswer that also advances the index in its own
\* snapshot (sensitivity test)
FollowerSubmitOptimistic(f, answer, timeTaken) ==
    /\ transport = "peer" /\ HostAlive
    /\ fstate[f] = "connected"
    /\ ftournament[f] # <<>>
    /\ CanAnswer(ftournament[f][1], fname[f])
    /\ answer \in AnswerChoices(ftournament[f][1].gameType)
    /\ Len(toHost[f]) < MaxInFlight
    /\ toHost' = [toHost EXCEPT ![f] = Append(toHost[f], SubmitAnswer(fname[f], answer, timeTaken))]
    /\ ftournament' = [ftournament EXCEPT ![f] =
            <<handleAnswerSubmitted(ftournament[f][1], fname[f], answer, timeTaken)>>]
    /\ UNCHANGED <<tournament, hostPeerOpen, clientConnections, hostCrashed, fstate, fname, inbox>>
    /\ UNCHANGED <<hostDestroyed, timed, dropped, fstart, logVars>>
    /\ UNCHANGED <<transport, storeVars, scoreVars, lobbyVars, mcqVars, chatVars>>

\* submitAnswer on a follower: sends SUBMIT_ANSWER, local snapshot untouched
FollowerSubmit(f, answer, timeTaken) ==
    /\ transport = "peer" /\ HostAlive
    /\ fstate[f] = "connected"
    /\ ftournament[f] # <<>>
    /\ CanAnswer(ftournament[f][1], fname[f])
    /\ answer \in AnswerChoices(ftournament[f][1].gameType)
    /\ Len(toHost[f]) < MaxInFlight
    /\ toHost' = [toHost EXCEPT ![f] = Append(toHost[f], SubmitAnswer(fname[f], answer, timeTaken))]
    /\ UNCHANGED <<tournament, hostPeerOpen, clientConnections, hostCrashed, fstate, fname, ftournament, inbox>>
    /\ fstart' = [fstart EXCEPT ![f] =
            IF timed THEN <<"submit", ftournament[f][1].players[fname[f]].currentQuestionIndex>>
            ELSE fstart[f]]
    /\ UNCHANGED <<hostDestroyed, timed, dropped, logVars>>
    /\ UNCHANGED <<transport, storeVars, scoreVars, lobbyVars, mcqVars, chatVars>>

\* submitAnswer on a follower whose connection has closed: the send is refused and
\* the connection may report it through conn.on('error'), which shows the error view
FollowerSendFails(f) ==
    /\ transport = "peer" /\ ~HostAlive
    /\ fstate[f] = "connected"
    /\ ftournament[f] # <<>>
    /\ CanAnswer(ftournament[f][1], fname[f])
    /\ fstate' = [fstate EXCEPT ![f] = "error"]
    /\ UNCHANGED <<tournament, hostPeerOpen, clientConnections, hostCrashed, fname,
                   ftournament, toHost, inbox, hostDestroyed, timed, dropped, fstart, logVars>>
    /\ UNCHANGED <<transport, storeVars, scoreVars, lobbyVars, mcqVars, chatVars>>

\* a follower leaves (onExit / unmount): peer.destroy()
FollowerExit(f) ==
    /\ transport = "peer"
    /\ fstate[f] = "connected"
    /\ fstate' = [fstate EXCEPT ![f] = "left"]
    /\ ftournament' = [ftournament EXCEPT ![f] = <<>>]
    /\ inbox' = [inbox EXCEPT ![f] = <<>>]
    /\ UNCHANGED <<tournament, hostPeerOpen, clientConnections, hostCrashed, fname, toHost>>
    /\ fstart' = [fstart EXCEPT ![f] = <<>>]
    /\ sent' = [sent EXCEPT ![f] = <<>>]
    /\ UNCHANGED <<hostDestroyed, timed, dropped, hlog, fpos>>
    /\ UNCHANGED <<transport, storeVars, scoreVars, lobbyVars, mcqVars, chatVars>>

\* host conn.on('close'): messages still in flight on that connection are lost
HostConnClose(f) ==
    /\ transport = "peer" /\ HostAlive /\ LogRoom /\ InboxRoom
    /\ f \in clientConnections
    /\ fstate[f] = "left"
    /\ clientConnections' = clientConnections \ {f}
    /\ toHost' = [toHost EXCEPT ![f] = <<>>]
    /\ tournament' = handleConnClose(tournament, f)
    /\ inbox' = broadcastTournamentState(tournament', clientConnections', inbox)
    /\ UNCHANGED <<hostPeerOpen, hostCrashed, fstate, fname, ftournament>>
    /\ HostLog(clientConnections')
    /\ UNCHANGED <<hostDestroyed, timed, dropped, fstart>>
    /\ UNCHANGED <<transport, storeVars, scoreVars, lobbyVars, mcqVars, chatVars>>

\* the host leaves its room ("Leave Tournament", "Back to Lobby", or the lobby
\* unmounts): the effect cleanup destroys its endpoint and every connection closes
HostExit ==
    /\ transport = "peer" /\ HostAlive
    /\ hostDestroyed' = TRUE
    /\ UNCHANGED <<tournament, hostPeerOpen, clientConnections, hostCrashed,
                   fstate, fname, ftournament, toHost, inbox, timed, dropped, fstart, logVars>>
    /\ UNCHANGED <<transport, storeVars, scoreVars, lobbyVars, mcqVars, chatVars>>

\* a follower mounts its room with a room code no open endpoint answers to:
\* peer.on('error') fires and the error view replaces the room
FollowerConnectFails(f) ==
    /\ transport = "peer"
    /\ ~(HostAlive /\ hostPeerOpen)
    /\ fstate[f] = "idle"
    /\ fstate' = [fstate EXCEPT ![f] = "error"]
    /\ UNCHANGED <<tournament, hostPeerOpen, clientConnections, hostCrashed, fname,
                   ftournament, toHost, inbox, hostDestroyed, timed, dropped, fstart, logVars>>
    /\ UNCHANGED <<transport, storeVars, scoreVars, lobbyVars, mcqVars, chatVars>>

\* the events of the peer transport, for followers F, elapsed times T and deck outcomes D
NextPeerIn(F, T, D) ==
    \/ HostPeerOpen
    \/ \E q \in D : HostInitEffect(q)
    \/ HostStart
    \/ \E a \in AllAnswers, t \in T : HostSubmit(a, t)
    \/ \E f \in F, n \in Names : FollowerConnect(f, n)
    \/ \E f \in F : HostReceive(f)
    \/ \E f \in F : FollowerReceive(f)
    \/ \E f \in F, a \in AllAnswers, t \in T : FollowerSubmit(f, a, t)
    \/ \E f \in F : FollowerExit(f)
    \/ \E f \in F : HostConnClose(f)
    \/ HostExit
    \/ \E f \in F : FollowerConnectFails(f)
    \/ \E f \in F : FollowerSendFails(f)

NextPeerOf(F) == NextPeerIn(F, Times, DeckOutcomes)

NextPeer == NextPeerOf(Solo)

\* two followers; every answer takes 500 ms and a deck change keeps the cards
PairTimes == {500}
PairDecks == {QuestionsOf(ReverseOrder)}
NextPair == NextPeerIn(Followers, PairTimes, PairDecks)

----------------------------------------------------------------------------
\* Store transport: the document and the writes applied to it

Creator == "p1"
Participants == {"p1", "p2"}
TournamentId == "T1"

\* variant of createTournament that seeds no player (sensitivity test)
createTournamentUnseeded(creatorName, gameType, questions) ==
    [id |-> TournamentId, gameType |-> gameType, status |-> "waiting", questions |-> questions,
     players |-> EmptyMap, creatorId |-> creatorName]

\* createTournament's addDoc payload (with the id onTournamentUpdate adds)
createTournament(creatorName, gameType, questions) ==
    [id |-> TournamentId, gameType |-> gameType, status |-> "waiting", questions |-> questions,
     players |-> Put(EmptyMap, creatorName, NewPlayer(creatorName, creatorName)),
     creatorId |-> creatorName]

\* the field-path updates the service functions hand to updateDoc
joinTournament(playerName) == [op |-> "join", name |-> playerName]
startTournament == [op |-> "start"]
updatePlayerState(playerId, score, nextIndex, isFinished) ==
    [op |-> "player", id |-> playerId, score |-> score,
     currentQuestionIndex |-> nextIndex, isFinished |-> isFinished]
finishTournament == [op |-> "finish"]

\* the display names a lobby user may type: one of them contains the character
\* that separates the segments of a store field path
JoinNames == Names \cup {"c", "a.b"}

\* the store reads the string key of an update as a field path: segments split at '.'
fieldPath(key) == IF key = "a.b" THEN <<"a", "b">> ELSE <<key>>

\* the store sets the value at a path of one or two segments below m, creating the
\* intermediate map when it is missing and keeping its other fields when it exists
setField(m, path, v) ==
    IF Len(path) = 1
    THEN Put(m, path[1], v)
    ELSE LET inner == IF path[1] \in DOMAIN m THEN m[path[1]] ELSE EmptyMap
         IN  Put(m, path[1], Put(inner, path[2], v))

\* the fields of upd laid over those of the map entry
overlay(entry, upd) ==
    [x \in (DOMAIN entry) \cup (DOMAIN upd) |-> IF x \in DOMAIN upd THEN upd[x] ELSE entry[x]]

\* the store sets the fields of upd below the map at a path of one or two segments
\* under m, keeping the other fields of that map and creating missing maps
mergeFields(m, path, upd) ==
    LET outer == IF path[1] \in DOMAIN m THEN m[path[1]] ELSE EmptyMap
    IN  IF Len(path) = 1
        THEN Put(m, path[1], overlay(outer, upd))
        ELSE LET inner == IF path[2] \in DOMAIN outer THEN outer[path[2]] ELSE EmptyMap
             IN  Put(m, path[1], Put(outer, path[2], overlay(inner, upd)))

\* updateDoc: merge the written field paths into the document
updateDoc(d, w) ==
    IF w.op = "join"
    THEN [d EXCEPT !.players = setField(d.players, fieldPath(w.name), NewPlayer(w.name, w.name))]
    ELSE IF w.op = "start"
    THEN [d EXCEPT !.status = "playing"]
    ELSE IF w.op = "finish"
    THEN [d EXCEPT !.status = "finished"]
    ELSE [d EXCEPT !.players = mergeFields(d.players, fieldPath(w.id),
                [score |-> w.score, currentQuestionIndex |-> w.currentQuestionIndex,
                 isFinished |-> w.isFinished])]

\* variant of the store's increment with a different rate (sensitivity test)
storeScoreIncrementCoarse(isCorrect, timeTaken) ==
    IF isCorrect THEN Max(0, MaxPoints - (timeTaken \div (MsPerPoint + MsPerPoint))) ELSE 0

\* Math.max(0, 1000 - Math.floor(timeTaken / 20)) when correct, else 0 (handleCheckAnswer)
storeScoreIncrement(isCorrect, timeTaken) ==
    IF isCorrect THEN Max(0, MaxPoints - (timeTaken \div MsPerPoint)) ELSE 0

storeIsCorrect(t, currentQuestion, answer) ==
    IF t.gameType \in {"audioToImage", "imageToAudio"}
    THEN answer = currentQuestion.id
    ELSE toLowerCase(answer) = toLowerCase(currentQuestion.text)

\* handleCheckAnswer up to its first await: the write computed from the local snapshot
handleCheckAnswer(t, playerName, answer, timeTaken) ==
    LET player == t.players[playerName]
        currentQuestionIndex == player.currentQuestionIndex
        currentQuestion == t.questions[currentQuestionIndex + 1]
        inc == storeScoreIncrement(storeIsCorrect(t, currentQuestion, answer), timeTaken)
        nextIndex == currentQuestionIndex + 1
        isFinished == nextIndex >= Len(t.questions)
    IN  updatePlayerState(playerName, player.score + inc, nextIndex, isFinished)

\* checkAndFinishTournament after getDoc returned d
allPlayersFinished(d) == \A n \in DOMAIN d.players : d.players[n].isFinished

\* what a participant's handlers read of a delivered snapshot: everything but the
\* other players' entries (those are only rendered in the leaderboard)
LocalView(d, playerName) ==
    [d EXCEPT !.players = [n \in (DOMAIN d.players) \cap {playerName} |-> d.players[n]]]

RECURSIVE InFlight(_)
InFlight(P) ==
    IF P = {} THEN 0
    ELSE LET p == CHOOSE x \in P : TRUE
         IN  Len(spending[p]) + schecks[p] + InFlight(P \ {p})

\* room left for one more store request
PendingRoom == InFlight(Participants) < MaxPending

----------------------------------------------------------------------------
\* Store transport: events

\* the lobby's list subscription (status == waiting) delivers
StoreListUpdate(p) ==
    /\ transport = "store"
    /\ sstate[p] \in {"lobby", "listed"}
    /\ sstate' = [sstate EXCEPT ![p] = IF doc # Null /\ doc.status = "waiting" THEN "listed" ELSE "lobby"]
    /\ sstate'[p] # sstate[p]
    /\ UNCHANGED <<doc, sname, slocal, spending, schecks, finishApplied, roomError>>
    /\ UNCHANGED <<transport, peerVars, scoreVars, lobbyVars, mcqVars, chatVars>>

\* handleJoinTournament on a listed tournament: the room mounts and subscribes
StoreOpenRoom(p, name) ==
    /\ transport = "store"
    /\ sstate[p] = "listed"
    /\ sstate' = [sstate EXCEPT ![p] = "room"]
    /\ sname' = [sname EXCEPT ![p] = name]
    /\ UNCHANGED <<doc, slocal, spending, schecks, finishApplied, roomError>>
    /\ UNCHANGED <<transport, peerVars, scoreVars, lobbyVars, mcqVars, chatVars>>

\* variant of the callback's join rule that also joins when there is no document
\* (sensitivity test)
joinsOnSnapshotAnyway(data, name) == data = Null \/ name \notin DOMAIN data.players

\* the onTournamentUpdate callback's join rule: if (data) { if (!data.players?.[playerName]) ... }
joinsOnSnapshot(data, name) == data # Null /\ name \notin DOMAIN data.players

\* the onTournamentUpdate callback: for a document, auto-join when absent, then
\* setTournament(data); for none, setError
StoreSnapshot(p) ==
    /\ transport = "store"
    /\ sstate[p] = "room"
    /\ IF doc = Null THEN roomError[p] = Null ELSE slocal[p] # <<LocalView(doc, sname[p])>>
    /\ IF joinsOnSnapshot(doc, sname[p])
       THEN /\ PendingRoom
            /\ spending' = [spending EXCEPT ![p] = Append(spending[p], joinTournament(sname[p]))]
       ELSE UNCHANGED spending
    /\ slocal' = [slocal EXCEPT ![p] = IF doc = Null THEN slocal[p] ELSE <<LocalView(doc, sname[p])>>]
    /\ roomError' = [roomError EXCEPT ![p] =
            IF doc = Null THEN <<"Tournament not found or has been deleted.">> ELSE roomError[p]]
    /\ UNCHANGED <<doc, sstate, sname, schecks, finishApplied>>
    /\ UNCHANGED <<transport, peerVars, scoreVars, lobbyVars, mcqVars, chatVars>>

\* "Start Game for Everyone": rendered in the waiting room when creatorId = playerName
StoreStart(p) ==
    /\ transport = "store"
    /\ sstate[p] = "room"
    /\ slocal[p] # <<>>
    /\ roomError[p] = Null
    /\ slocal[p][1].status = "waiting"
    /\ slocal[p][1].creatorId = sname[p]
    /\ PendingRoom
    /\ spending' = [spending EXCEPT ![p] = Append(spending[p], startTournament)]
    /\ UNCHANGED <<doc, sstate, sname, slocal, schecks, finishApplied, roomError>>
    /\ UNCHANGED <<transport, peerVars, scoreVars, lobbyVars, mcqVars, chatVars>>

\* handleCheckAnswer from the gameplay screen: issues the player write
StoreSubmit(p, answer, timeTaken) ==
    /\ transport = "store"
    /\ sstate[p] = "room"
    /\ slocal[p] # <<>>
    /\ roomError[p] = Null
    /\ CanAnswer(slocal[p][1], sname[p])
    /\ answer \in AnswerChoices(slocal[p][1].gameType)
    /\ PendingRoom
    /\ spending' = [spending EXCEPT ![p] =
            Append(spending[p], handleCheckAnswer(slocal[p][1], sname[p], answer, timeTaken))]
    /\ UNCHANGED <<doc, sstate, sname, slocal, schecks, finishApplied, roomError>>
    /\ UNCHANGED <<transport, peerVars, scoreVars, lobbyVars, mcqVars, chatVars>>

\* the store applies the oldest write of p and acknowledges it; an acknowledged
\* player write with isFinished continues into checkAndFinishTournament. For a
\* document that does not exist the store rejects the write: the awaiting handler
\* stops there, and a rejected join hands its error to setError
StoreApply(p) ==
    /\ transport = "store"
    /\ spending[p] # <<>>
    /\ LET w == Head(spending[p])
       IN  IF doc = Null
           THEN /\ UNCHANGED <<doc, schecks, finishApplied>>
                /\ roomError' = [roomError EXCEPT ![p] =
                        IF w.op = "join" THEN <<"No document to update">> ELSE roomError[p]]
           ELSE /\ doc' = updateDoc(doc, w)
                /\ schecks' = [schecks EXCEPT ![p] =
                        IF w.op = "player" /\ w.isFinished THEN schecks[p] + 1 ELSE schecks[p]]
                /\ finishApplied' = (finishApplied \/ w.op = "finish")
                /\ UNCHANGED roomError
    /\ spending' = [spending EXCEPT ![p] = Tail(spending[p])]
    /\ UNCHANGED <<sstate, sname, slocal>>
    /\ UNCHANGED <<transport, peerVars, scoreVars, lobbyVars, mcqVars, chatVars>>

\* checkAndFinishTournament: getDoc returns, the finish write is issued if all finished
StoreFinishCheck(p) ==
    /\ transport = "store"
    /\ schecks[p] > 0
    /\ schecks' = [schecks EXCEPT ![p] = schecks[p] - 1]
    /\ spending' = [spending EXCEPT ![p] =
            IF doc # Null /\ allPlayersFinished(doc)
            THEN Append(spending[p], finishTournament) ELSE spending[p]]
    /\ UNCHANGED <<doc, sstate, sname, slocal, finishApplied, roomError>>
    /\ UNCHANGED <<transport, peerVars, scoreVars, lobbyVars, mcqVars, chatVars>>

\* the document is deleted in the store (no code of the program does that: an
\* administrator, or a rule of the store)
StoreDocDeleted ==
    /\ transport = "store"
    /\ doc # Null
    /\ doc' = Null
    /\ UNCHANGED <<sstate, sname, slocal, spending, schecks, finishApplied, roomError>>
    /\ UNCHANGED <<transport, peerVars, scoreVars, lobbyVars, mcqVars, chatVars>>

NextStore ==
    \/ \E p \in Participants : StoreListUpdate(p)
    \/ \E p \in Participants, n \in Names : StoreOpenRoom(p, n)
    \/ \E p \in Participants : StoreSnapshot(p)
    \/ \E p \in Participants : StoreStart(p)
    \/ \E p \in Participants, a \in AllAnswers, t \in Times : StoreSubmit(p, a, t)
    \/ \E p \in Participants : StoreApply(p)
    \/ \E p \in Participants : StoreFinishCheck(p)

\* the store transport when the document can disappear
NextGone == NextStore \/ StoreDocDeleted

----------------------------------------------------------------------------
\* Joins alone, in a waiting tournament, through both transports

\* the host applies the JOIN_REQUEST of follower f, who typed name
JoinsPeer(f, name) ==
    /\ transport = "joins"
    /\ fstate[f] = "idle"
    /\ tournament.status = "waiting"
    /\ fstate' = [fstate EXCEPT ![f] = "connected"]
    /\ fname' = [fname EXCEPT ![f] = name]
    /\ tournament' = handleJoinRequest(tournament, f, name)
    /\ UNCHANGED <<hostPeerOpen, clientConnections, hostCrashed, ftournament, toHost, inbox,
                   hostDestroyed, timed, dropped, fstart, logVars>>
    /\ UNCHANGED <<transport, storeVars, scoreVars, lobbyVars, mcqVars, chatVars>>

\* participant p, who typed name, opens the store room: its first snapshot issues
\* the join write when the name is not a key of the player map, and the store applies it
JoinsStore(p, name) ==
    /\ transport = "joins"
    /\ sstate[p] = "lobby"
    /\ doc.status = "waiting"
    /\ sstate' = [sstate EXCEPT ![p] = "room"]
    /\ sname' = [sname EXCEPT ![p] = name]
    /\ doc' = IF name \in DOMAIN doc.players THEN doc ELSE updateDoc(doc, joinTournament(name))
    /\ UNCHANGED <<slocal, spending, schecks, finishApplied, roomError>>
    /\ UNCHANGED <<transport, peerVars, scoreVars, lobbyVars, mcqVars, chatVars>>

NextJoins ==
    \/ \E f \in Followers, n \in JoinNames : JoinsPeer(f, n)
    \/ \E p \in Participants, n \in JoinNames : JoinsStore(p, n)

----------------------------------------------------------------------------
\* Answer writes of a running store tournament, each applied as soon as issued

\* the document once participant p2, who typed joiner, has joined the tournament
\* of creator and the creator has started it
WritesStart(creator, joiner, gameType, questions) ==
    LET created == createTournament(creator, gameType, questions)
        joined == IF joiner \in DOMAIN created.players
                  THEN created
                  ELSE updateDoc(created, joinTournament(joiner))
    IN  updateDoc(joined, startTournament)

\* handleCheckAnswer of participant p on the document as it is, and its write applied
WritesSubmit(p, answer, timeTaken) ==
    /\ transport = "writes"
    /\ CanAnswer(doc, sname[p])
    /\ answer \in AnswerChoices(doc.gameType)
    /\ doc' = updateDoc(doc, handleCheckAnswer(doc, sname[p], answer, timeTaken))
    /\ UNCHANGED <<sstate, sname, slocal, spending, schecks, finishApplied, roomError>>
    /\ UNCHANGED <<transport, peerVars, scoreVars, lobbyVars, mcqVars, chatVars>>

NextWrites == \E p \in Participants, a \in AllAnswers, t \in Times : WritesSubmit(p, a, t)

----------------------------------------------------------------------------
\* Replay of one submission sequence through both transports

\* elapsed times of the replayed submissions
ReplayTimes == {0, 500, 30000}

\* the peer aggregate once follower f1 has joined as "b" and the host has started
ReplayPeerStart(gameType, questions) ==
    [handleJoinRequest(HostInitialState(gameType, questions), "f1", "b") EXCEPT !.status = "playing"]

\* the document once participant "b" has joined and the creator has started
ReplayStoreStart(gameType, questions) ==
    updateDoc(updateDoc(createTournament(HostName, gameType, questions), joinTournament("b")),
              startTournament)

\* handleCheckAnswer on the participant's current snapshot, and its write applied
storeSubmission(d, playerName, answer, timeTaken) ==
    IF playerName \in DOMAIN d.players
       /\ d.players[playerName].currentQuestionIndex < Len(d.questions)
    THEN updateDoc(d, handleCheckAnswer(d, playerName, answer, timeTaken))
    ELSE d

\* the next submission of the sequence: the host applies it (SUBMIT_ANSWER or its
\* own submitAnswer) and the same participant submits it to the store
ReplaySubmission(name, answer, timeTaken) ==
    /\ transport = "replay"
    /\ name \in DOMAIN tournament.players
    /\ answer \in AnswerChoices(tournament.gameType)
    /\ tournament' = handleAnswerSubmitted(tournament, name, answer, timeTaken)
    /\ doc' = storeSubmission(doc, name, answer, timeTaken)
    /\ UNCHANGED <<hostPeerOpen, clientConnections, hostCrashed, fstate, fname, ftournament, toHost, inbox>>
    /\ UNCHANGED <<hostDestroyed, timed, dropped, fstart, logVars>>
    /\ UNCHANGED <<sstate, sname, slocal, spending, schecks, finishApplied, roomError>>
    /\ UNCHANGED <<transport, scoreVars, lobbyVars, mcqVars, chatVars>>

NextReplay == \E n \in Names, a \in AllAnswers, t \in ReplayTimes : ReplaySubmission(n, a, t)

----------------------------------------------------------------------------
\* Multiple choice (match modes): the options each room draws for itself, the
\* option clicked, and the submission, applied in both transports

McqGames == {"audioToImage", "imageToAudio"}
McqQuestions == [i \in 1..McqCards |-> Question(i)]

\* shuffleArray: the orders a sort with a random comparator can give
shuffleArray(array) ==
    {[j \in 1..Len(array) |-> array[perm[j]]] : perm \in Permutations(1..Len(array))}

\* getRandomItems: the other items (every question has an image), shuffled, the first count kept
getRandomItems(arr, currentId, count) ==
    LET isOther(item) == item.id # currentId
        otherItems == SelectSeq(arr, isOther)
    IN  {SubSeq(shuffled, 1, Min(count, Len(shuffled))) : shuffled \in shuffleArray(otherItems)}

\* the MCQ options effect of the room of player name: what setMcqOptions can receive
\* (nothing new when the player has no current question)
mcqOptionsEffect(t, name, shown) ==
    IF name \in DOMAIN t.players /\ t.players[name].currentQuestionIndex < Len(t.questions)
    THEN LET currentQuestion == t.questions[t.players[name].currentQuestionIndex + 1]
         IN  UNION {shuffleArray(Append(randomOptions, currentQuestion)) :
                        randomOptions \in getRandomItems(t.questions, currentQuestion.id, McqDistractors)}
    ELSE {shown}

\* the options effects of every room after the tournament changed to t
mcqOptionsAfter(t) ==
    {[n \in Names |-> IF n = HostName THEN oa ELSE ob] :
        oa \in mcqOptionsEffect(t, HostName, mcqOptions[HostName]),
        ob \in mcqOptionsEffect(t, "b", mcqOptions["b"])}

\* onClick of the i-th option rendered: setSelectedMcqId(option.id)
SelectOption(name, i) ==
    /\ transport = "mcq"
    /\ CanAnswer(tournament, name)
    /\ tournament.players[name].currentQuestionIndex < McqRounds
    /\ i \in DOMAIN mcqOptions[name]
    /\ selectedMcqId[name] # <<mcqOptions[name][i].id>>
    /\ selectedMcqId' = [selectedMcqId EXCEPT ![name] = <<mcqOptions[name][i].id>>]
    /\ UNCHANGED <<mcqOptions, submitted>>
    /\ UNCHANGED <<transport, peerVars, storeVars, scoreVars, lobbyVars, chatVars>>

\* submitAnswer / handleCheckAnswer with the selected id as answer: the host applies
\* it and the store applies the participant's write; the selection is cleared and
\* every room's options effect runs on the changed tournament
McqSubmit(name, timeTaken) ==
    /\ transport = "mcq"
    /\ selectedMcqId[name] # Null
    /\ CanAnswer(tournament, name)
    /\ tournament.players[name].currentQuestionIndex < McqRounds
    /\ tournament' = handleAnswerSubmitted(tournament, name, selectedMcqId[name][1], timeTaken)
    /\ doc' = storeSubmission(doc, name, selectedMcqId[name][1], timeTaken)
    /\ selectedMcqId' = [selectedMcqId EXCEPT ![name] = Null]
    /\ submitted' = [submitted EXCEPT ![name] =
            <<[answer |-> selectedMcqId[name][1], timeTaken |-> timeTaken,
               index |-> tournament.players[name].currentQuestionIndex,
               scoreBefore |-> tournament.players[name].score,
               options |-> mcqOptions[name]]>>]
    /\ mcqOptions' \in mcqOptionsAfter(tournament')
    /\ UNCHANGED <<hostPeerOpen, clientConnections, hostCrashed, fstate, fname, ftournament, toHost,
                   inbox, hostDestroyed, timed, dropped, fstart, logVars>>
    /\ UNCHANGED <<sstate, sname, slocal, spending, schecks, finishApplied, roomError>>
    /\ UNCHANGED <<transport, scoreVars, lobbyVars, chatVars>>

NextMcq ==
    \/ \E n \in Names, i \in 1..(McqDistractors + 1) : SelectOption(n, i)
    \/ \E n \in Names, t \in Times : McqSubmit(n, t)

\* no multiple-choice state is part of the run
McqRest ==
    /\ mcqOptions = [n \in Names |-> <<>>]
    /\ selectedMcqId = [n \in Names |-> Null]
    /\ submitted = [n \in Names |-> <<>>]

----------------------------------------------------------------------------
\* The chat (components/PublicChat.tsx): one user hosts, the others join with the
\* room code the host shows. The library that carries the data is not part of
\* the sources: a connection delivers what was sent in any order.

ChatClients == {"b", "c"}
ChatUsers == {HostName} \cup ChatClients
\* what a user can have typed in the message input
ChatTexts == {" ", "x"}

\* variant of trim that keeps the white space (sensitivity test)
trimNothing(s) == s

\* String.prototype.trim on the texts the model types
trim(s) ==
    CASE s = " " -> ""
      [] s = " b " -> "b"
      [] s = " H " -> "H"
      [] OTHER -> s

IsPrefix(s, t) == Len(s) <= Len(t) /\ SubSeq(t, 1, Len(s)) = s
RemoveAt(s, i) == SubSeq(s, 1, i - 1) \o SubSeq(s, i + 1, Len(s))

\* variant of the host's updater that puts the new message first (sensitivity test)
prependMessage(messages, message) == <<message>> \o messages

\* [...prev.messages, message]
appendMessage(messages, message) == Append(messages, message)

\* the clients whose open connection is one of the host's conns
linked(conns) ==
    {g \in ChatClients : peerRef[g] \in conns /\ hostConnectionRef[g] # Null
                         /\ hostConnectionRef[g][1].open}

\* the effect on [isHost, chatState]: broadcastState sends the state on every
\* connection of clientConnectionsRef.current
broadcastState(state, conns) ==
    [g \in ChatClients |->
        IF g \in linked(conns) THEN Append(chatToClient[g], state) ELSE chatToClient[g]]

\* the host's component goes from prev to next (null or a state): setChatState,
\* then the broadcast effect
hostSetsChatState(u, next, conns) ==
    /\ chatState' = [chatState EXCEPT ![u] = next]
    /\ chatToClient' = IF next # Null /\ next # chatState[u]
                       THEN broadcastState(next[1], conns) ELSE chatToClient

\* cleanup of a hosting component: peer.destroy(), every conn closed
cleanupHost(u) ==
    /\ peerRef' = [peerRef EXCEPT ![u] = 0]
    /\ peerOpen' = [peerOpen EXCEPT ![u] = FALSE]
    /\ clientConnectionsRef' = {}
    /\ closeAtHost' = {}
    /\ chatState' = [chatState EXCEPT ![u] = Null]
    /\ isHost' = [isHost EXCEPT ![u] = FALSE]
    /\ closeAtClient' = [g \in ChatClients |->
            closeAtClient[g] \/ (hostConnectionRef[g] # Null /\ peerRef[u] # 0
                                 /\ hostConnectionRef[g][1].to = peerRef[u])]
    /\ chatToHost' = [g \in ChatClients |->
            IF hostConnectionRef[g] # Null /\ hostConnectionRef[g][1].to = peerRef[u]
            THEN <<>> ELSE chatToHost[g]]

\* cleanup of a joining component: peer.destroy(), hostConnectionRef closed
cleanupClient(f) ==
    /\ peerRef' = [peerRef EXCEPT ![f] = 0]
    /\ peerOpen' = [peerOpen EXCEPT ![f] = FALSE]
    /\ hostConnectionRef' = [hostConnectionRef EXCEPT ![f] = Null]
    /\ chatState' = [chatState EXCEPT ![f] = Null]
    /\ chatToHost' = [chatToHost EXCEPT ![f] = <<>>]
    /\ chatToClient' = [chatToClient EXCEPT ![f] = <<>>]
    /\ closeAtHost' = IF peerRef[f] \in clientConnectionsRef
                      THEN closeAtHost \cup {peerRef[f]} ELSE closeAtHost

\* handleHost, the name not blank, pressed by a component that holds no endpoint
\* (cleanup finds nothing to close): setIsHost(true), new Peer()
handleHost(u) ==
    /\ transport = "chat"
    /\ u = HostName
    /\ chatState[u] = Null
    /\ peerRef[u] = 0
    /\ nextPeerId <= MaxChatPeers
    /\ isHost' = [isHost EXCEPT ![u] = TRUE]
    /\ peerRef' = [peerRef EXCEPT ![u] = nextPeerId]
    /\ nextPeerId' = nextPeerId + 1
    /\ UNCHANGED <<chatState, peerOpen, roomCodeToJoin, hostConnectionRef, clientConnectionsRef,
                   chatToHost, chatToClient, closeAtHost, closeAtClient, chatClock>>
    /\ UNCHANGED <<transport, peerVars, storeVars, scoreVars, lobbyVars, mcqVars>>

\* peer.on('open') of the hosting component: the room starts with no message
HostChatOpen(u) ==
    /\ transport = "chat"
    /\ isHost[u] /\ peerRef[u] # 0 /\ ~peerOpen[u]
    /\ peerOpen' = [peerOpen EXCEPT ![u] = TRUE]
    /\ hostSetsChatState(u, <<[hostId |-> peerRef[u],
                               players |-> Put(EmptyMap, peerRef[u], [id |-> peerRef[u], name |-> u]),
                               messages |-> <<>>]>>, clientConnectionsRef)
    /\ UNCHANGED <<isHost, peerRef, roomCodeToJoin, hostConnectionRef, clientConnectionsRef,
                   chatToHost, closeAtHost, closeAtClient, nextPeerId, chatClock>>
    /\ UNCHANGED <<transport, peerVars, storeVars, scoreVars, lobbyVars, mcqVars>>

\* handleJoin with the code of a room some host has shown (name and code not
\* blank), pressed by a component that holds no endpoint: new Peer()
handleJoin(f, code) ==
    /\ transport = "chat"
    /\ f \in ChatClients
    /\ chatState[f] = Null
    /\ peerRef[f] = 0
    /\ nextPeerId <= MaxChatPeers
    /\ code \in 1..(nextPeerId - 1)
    /\ \E u \in ChatUsers : chatState[u] # Null /\ chatState[u][1].hostId = code
    /\ roomCodeToJoin' = [roomCodeToJoin EXCEPT ![f] = code]
    /\ peerRef' = [peerRef EXCEPT ![f] = nextPeerId]
    /\ nextPeerId' = nextPeerId + 1
    /\ UNCHANGED <<chatState, isHost, peerOpen, hostConnectionRef, clientConnectionsRef,
                   chatToHost, chatToClient, closeAtHost, closeAtClient, chatClock>>
    /\ UNCHANGED <<transport, peerVars, storeVars, scoreVars, lobbyVars, mcqVars>>

\* peer.on('open') of a joining component: peer.connect(code)
ClientChatOpen(f) ==
    /\ transport = "chat"
    /\ f \in ChatClients
    /\ peerRef[f] # 0 /\ ~peerOpen[f]
    /\ peerOpen' = [peerOpen EXCEPT ![f] = TRUE]
    /\ hostConnectionRef' = [hostConnectionRef EXCEPT ![f] = <<[to |-> roomCodeToJoin[f], open |-> FALSE]>>]
    /\ UNCHANGED <<chatState, isHost, peerRef, roomCodeToJoin, clientConnectionsRef,
                   chatToHost, chatToClient, closeAtHost, closeAtClient, nextPeerId, chatClock>>
    /\ UNCHANGED <<transport, peerVars, storeVars, scoreVars, lobbyVars, mcqVars>>

\* peer.on('connection') of the host: the conn is kept under conn.peer
HostChatConnection(u, f) ==
    /\ transport = "chat"
    /\ isHost[u] /\ peerOpen[u]
    /\ hostConnectionRef[f] # Null
    /\ hostConnectionRef[f][1].to = peerRef[u]
    /\ peerRef[f] \notin clientConnectionsRef
    /\ clientConnectionsRef' = clientConnectionsRef \cup {peerRef[f]}
    /\ UNCHANGED <<chatState, isHost, peerRef, peerOpen, roomCodeToJoin, hostConnectionRef,
                   chatToHost, chatToClient, closeAtHost, closeAtClient, nextPeerId, chatClock>>
    /\ UNCHANGED <<transport, peerVars, storeVars, scoreVars, lobbyVars, mcqVars>>

\* conn.on('open') of a joining component: it sends its JOIN_REQUEST
ClientConnOpen(f) ==
    /\ transport = "chat"
    /\ hostConnectionRef[f] # Null
    /\ ~hostConnectionRef[f][1].open
    /\ peerRef[f] \in clientConnectionsRef
    /\ hostConnectionRef' = [hostConnectionRef EXCEPT ![f] = <<[to |-> hostConnectionRef[f][1].to, open |-> TRUE]>>]
    /\ chatToHost' = [chatToHost EXCEPT ![f] =
            Append(@, [type |-> "JOIN_REQUEST", payload |-> [id |-> peerRef[f], name |-> f]])]
    /\ UNCHANGED <<chatState, isHost, peerRef, peerOpen, roomCodeToJoin, clientConnectionsRef,
                   chatToClient, closeAtHost, closeAtClient, nextPeerId, chatClock>>
    /\ UNCHANGED <<transport, peerVars, storeVars, scoreVars, lobbyVars, mcqVars>>

\* the room of the code is gone: peer.on('error') of the joining component, cleanup
ClientConnectFails(f) ==
    /\ transport = "chat"
    /\ hostConnectionRef[f] # Null
    /\ ~hostConnectionRef[f][1].open
    /\ \A u \in ChatUsers : ~(isHost[u] /\ peerRef[u] = hostConnectionRef[f][1].to)
    /\ cleanupClient(f)
    /\ closeAtClient' = [closeAtClient EXCEPT ![f] = FALSE]
    /\ UNCHANGED <<isHost, roomCodeToJoin, clientConnectionsRef, nextPeerId, chatClock>>
    /\ UNCHANGED <<transport, peerVars, storeVars, scoreVars, lobbyVars, mcqVars>>

\* what handleHostData's updater returns for prev (not null) and data
hostDataUpdate(prev, data) ==
    IF data.type = "JOIN_REQUEST"
    THEN [prev EXCEPT !.players = Put(prev.players, data.payload.id, data.payload)]
    ELSE IF data.type = "CHAT_MESSAGE"
    THEN [prev EXCEPT !.messages = appendMessage(prev.messages, data.payload)]
    ELSE prev

\* conn.on('data') of the host: handleHostData on the i-th message that f's
\* connection carries
handleHostData(u, f, i) ==
    /\ transport = "chat"
    /\ isHost[u] /\ peerOpen[u]
    /\ peerRef[f] \in clientConnectionsRef
    /\ hostConnectionRef[f] # Null /\ hostConnectionRef[f][1].to = peerRef[u]
    /\ i \in DOMAIN chatToHost[f]
    /\ chatToHost' = [chatToHost EXCEPT ![f] = RemoveAt(@, i)]
    /\ hostSetsChatState(u, IF chatState[u] = Null THEN Null
                            ELSE <<hostDataUpdate(chatState[u][1], chatToHost[f][i])>>,
                         clientConnectionsRef)
    /\ UNCHANGED <<isHost, peerRef, peerOpen, roomCodeToJoin, hostConnectionRef, clientConnectionsRef,
                   closeAtHost, closeAtClient, nextPeerId, chatClock>>
    /\ UNCHANGED <<transport, peerVars, storeVars, scoreVars, lobbyVars, mcqVars>>

\* conn.on('close') of the host: handleClientDisconnect(peerId)
handleClientDisconnect(u, peerId) ==
    /\ transport = "chat"
    /\ isHost[u]
    /\ peerId \in closeAtHost
    /\ closeAtHost' = closeAtHost \ {peerId}
    /\ clientConnectionsRef' = clientConnectionsRef \ {peerId}
    /\ hostSetsChatState(u, IF chatState[u] = Null THEN Null
                            ELSE <<[chatState[u][1] EXCEPT !.players =
                                      IF peerId \in DOMAIN @ THEN Remove(@, peerId) ELSE @]>>,
                         clientConnectionsRef \ {peerId})
    /\ UNCHANGED <<isHost, peerRef, peerOpen, roomCodeToJoin, hostConnectionRef,
                   chatToHost, closeAtClient, nextPeerId, chatClock>>
    /\ UNCHANGED <<transport, peerVars, storeVars, scoreVars, lobbyVars, mcqVars>>

\* the message sendMessage builds from the input
chatMessage(u, text) == [name |-> u, message |-> trim(text), timestamp |-> chatClock + 1]

\* sendMessage in the room view (a blank input returns at once): the host
\* appends to its own state, a client sends a CHAT_MESSAGE to the host
sendMessage(u, text) ==
    /\ transport = "chat"
    /\ chatState[u] # Null
    /\ trim(text) # ""
    /\ chatClock < MaxChatMessages
    /\ chatClock' = chatClock + 1
    /\ IF isHost[u]
       THEN /\ hostSetsChatState(u, <<[chatState[u][1] EXCEPT
                    !.messages = appendMessage(@, chatMessage(u, text))]>>, clientConnectionsRef)
            /\ UNCHANGED chatToHost
       ELSE /\ chatToHost' = [chatToHost EXCEPT ![u] =
                    IF hostConnectionRef[u] # Null /\ hostConnectionRef[u][1].open
                    THEN Append(@, [type |-> "CHAT_MESSAGE", payload |-> chatMessage(u, text)])
                    ELSE @]
            /\ UNCHANGED <<chatState, chatToClient>>
    /\ UNCHANGED <<isHost, peerRef, peerOpen, roomCodeToJoin, hostConnectionRef, clientConnectionsRef,
                   closeAtHost, closeAtClient, nextPeerId>>
    /\ UNCHANGED <<transport, peerVars, storeVars, scoreVars, lobbyVars, mcqVars>>

\* conn.on('data') of a joining component: setChatState(data.payload)
ClientChatReceive(f, i) ==
    /\ transport = "chat"
    /\ hostConnectionRef[f] # Null
    /\ i \in DOMAIN chatToClient[f]
    /\ chatState' = [chatState EXCEPT ![f] = <<chatToClient[f][i]>>]
    /\ chatToClient' = [chatToClient EXCEPT ![f] = RemoveAt(@, i)]
    /\ UNCHANGED <<isHost, peerRef, peerOpen, roomCodeToJoin, hostConnectionRef, clientConnectionsRef,
                   chatToHost, closeAtHost, closeAtClient, nextPeerId, chatClock>>
    /\ UNCHANGED <<transport, peerVars, storeVars, scoreVars, lobbyVars, mcqVars>>

\* the Disconnect button of the room view: cleanup
ChatDisconnect(u) ==
    /\ transport = "chat"
    /\ chatState[u] # Null
    /\ IF isHost[u]
       THEN /\ cleanupHost(u)
            /\ UNCHANGED <<hostConnectionRef, chatToClient>>
       ELSE /\ cleanupClient(u)
            /\ UNCHANGED <<isHost, clientConnectionsRef, closeAtClient>>
    /\ UNCHANGED <<roomCodeToJoin, nextPeerId, chatClock>>
    /\ UNCHANGED <<transport, peerVars, storeVars, scoreVars, lobbyVars, mcqVars>>

\* conn.on('close') of a joining component: setError, cleanup (of whatever the
\* component holds by then)
ClientConnClose(f) ==
    /\ transport = "chat"
    /\ closeAtClient[f]
    /\ closeAtClient' = [closeAtClient EXCEPT ![f] = FALSE]
    /\ cleanupClient(f)
    /\ UNCHANGED <<isHost, roomCodeToJoin, clientConnectionsRef, nextPeerId, chatClock>>
    /\ UNCHANGED <<transport, peerVars, storeVars, scoreVars, lobbyVars, mcqVars>>

NextChat ==
    \/ \E u \in ChatUsers : handleHost(u)
    \/ \E u \in ChatUsers : HostChatOpen(u)
    \/ \E f \in ChatClients, code \in 1..MaxChatPeers : handleJoin(f, code)
    \/ \E f \in ChatClients : ClientChatOpen(f)
    \/ \E u \in ChatUsers, f \in ChatClients : HostChatConnection(u, f)
    \/ \E f \in ChatClients : ClientConnOpen(f)
    \/ \E f \in ChatClients : ClientConnectFails(f)
    \/ \E u \in ChatUsers, f \in ChatClients, i \in 1..MaxChatPeers + MaxChatMessages : handleHostData(u, f, i)
    \/ \E u \in ChatUsers, peerId \in 1..MaxChatPeers : handleClientDisconnect(u, peerId)
    \/ \E u \in ChatUsers, text \in ChatTexts : sendMessage(u, text)
    \/ \E f \in ChatClients, i \in 1..2 * (MaxChatPeers + MaxChatMessages) : ClientChatReceive(f, i)
    \/ \E u \in ChatUsers : ChatDisconnect(u)
    \/ \E f \in ChatClients : ClientConnClose(f)

\* no chat is part of the run: every component shows its lobby view
ChatRest ==
    /\ chatState = [u \in ChatUsers |-> Null]
    /\ isHost = [u \in ChatUsers |-> FALSE]
    /\ peerRef = [u \in ChatUsers |-> 0]
    /\ peerOpen = [u \in ChatUsers |-> FALSE]
    /\ roomCodeToJoin = [f \in ChatClients |-> 0]
    /\ hostConnectionRef = [f \in ChatClients |-> Null]
    /\ clientConnectionsRef = {}
    /\ chatToHost = [f \in ChatClients |-> <<>>]
    /\ chatToClient = [f \in ChatClients |-> <<>>]
    /\ closeAtHost = {}
    /\ closeAtClient = [f \in ChatClients |-> FALSE]
    /\ nextPeerId = 1
    /\ chatClock = 0

----------------------------------------------------------------------------
\* The lobbies: what the user typed, the inline error, the mounted room

Lobbies == {"peer", "store"}
\* texts of the name input and of the room code input
TypedNames == {"", " ", " b ", "a", "a.b"}
TypedCodes == {"", " ", " H "}

\* onChange of the name input of a lobby that shows no room
SetPlayerName(k, text) ==
    /\ transport = "lobby"
    /\ (IF k = "peer" THEN activeTournament ELSE joinedTournament) = Null
    /\ nameInput[k] # text
    /\ nameInput' = [nameInput EXCEPT ![k] = text]
    /\ UNCHANGED <<roomCode, error, activeTournament, joinedTournament, endpoints, documents>>
    /\ UNCHANGED <<transport, peerVars, storeVars, scoreVars, mcqVars, chatVars>>

\* onChange of the room code input
SetRoomCode(text) ==
    /\ transport = "lobby"
    /\ activeTournament = Null
    /\ roomCode # text
    /\ roomCode' = text
    /\ UNCHANGED <<nameInput, error, activeTournament, joinedTournament, endpoints, documents>>
    /\ UNCHANGED <<transport, peerVars, storeVars, scoreVars, mcqVars, chatVars>>

\* the close button of the inline error
DismissError(k) ==
    /\ transport = "lobby"
    /\ error[k] # Null
    /\ error' = [error EXCEPT ![k] = Null]
    /\ UNCHANGED <<nameInput, roomCode, activeTournament, joinedTournament, endpoints, documents>>
    /\ UNCHANGED <<transport, peerVars, storeVars, scoreVars, mcqVars, chatVars>>

\* handleCreateRoom, for the deck's playable cards as the room's effect will draw
\* them (none: fewer than the required number); on success the room mounts as
\* host: the initialisation effect and new Peer() run
handleCreateRoom(gameType, playableCards) ==
    /\ transport = "lobby"
    /\ activeTournament = Null
    /\ IF trim(nameInput["peer"]) = ""
       THEN /\ error' = [error EXCEPT !["peer"] = <<"Please enter your name before creating a room.">>]
            /\ UNCHANGED <<activeTournament, tournament, endpoints>>
       ELSE IF playableCards = <<>>
       THEN /\ error' = [error EXCEPT !["peer"] = <<"You need at least 5 cards with images to create a tournament.">>]
            /\ UNCHANGED <<activeTournament, tournament, endpoints>>
       ELSE /\ error' = [error EXCEPT !["peer"] = Null]
            /\ activeTournament' = <<[roomCode |-> "", isHost |-> TRUE,
                                      playerName |-> trim(nameInput["peer"]),
                                      initialGameType |-> gameType]>>
            /\ tournament' = HostInitialStateOf(trim(nameInput["peer"]), gameType, playableCards)
            /\ endpoints' = endpoints + 1
    /\ UNCHANGED <<nameInput, roomCode, joinedTournament, documents>>
    /\ UNCHANGED <<hostPeerOpen, clientConnections, hostCrashed, fstate, fname, ftournament, toHost,
                   inbox, hostDestroyed, timed, dropped, fstart, logVars>>
    /\ UNCHANGED <<transport, storeVars, scoreVars, mcqVars, chatVars>>

\* handleJoinRoom; on success the room mounts as follower: new Peer() runs
handleJoinRoom ==
    /\ transport = "lobby"
    /\ activeTournament = Null
    /\ IF trim(nameInput["peer"]) = ""
       THEN /\ error' = [error EXCEPT !["peer"] = <<"Please enter your name to join.">>]
            /\ UNCHANGED <<activeTournament, endpoints>>
       ELSE IF trim(roomCode) = ""
       THEN /\ error' = [error EXCEPT !["peer"] = <<"Please enter a room code.">>]
            /\ UNCHANGED <<activeTournament, endpoints>>
       ELSE /\ activeTournament' = <<[roomCode |-> trim(roomCode), isHost |-> FALSE,
                                      playerName |-> trim(nameInput["peer"])]>>
            /\ endpoints' = endpoints + 1
            /\ UNCHANGED error
    /\ UNCHANGED <<nameInput, roomCode, joinedTournament, documents>>
    /\ UNCHANGED <<transport, peerVars, storeVars, scoreVars, mcqVars, chatVars>>

\* handleCreateTournament; added tells whether the store accepted the addDoc
handleCreateTournament(gameType, playableCards, added) ==
    /\ transport = "lobby"
    /\ joinedTournament = Null
    /\ doc = Null
    /\ IF trim(nameInput["store"]) = ""
       THEN /\ error' = [error EXCEPT !["store"] = <<"Please enter your name before creating a tournament.">>]
            /\ UNCHANGED <<joinedTournament, doc, documents>>
       ELSE IF playableCards = <<>>
       THEN /\ error' = [error EXCEPT !["store"] = <<"You need at least 5 cards with images to create a tournament.">>]
            /\ UNCHANGED <<joinedTournament, doc, documents>>
       ELSE IF ~added
       THEN /\ error' = [error EXCEPT !["store"] = <<"Failed to create tournament.">>]
            /\ UNCHANGED <<joinedTournament, doc, documents>>
       ELSE /\ error' = [error EXCEPT !["store"] = Null]
            /\ doc' = createTournament(trim(nameInput["store"]), gameType, playableCards)
            /\ documents' = documents + 1
            /\ joinedTournament' = <<[id |-> TournamentId, name |-> trim(nameInput["store"])]>>
    /\ UNCHANGED <<nameInput, roomCode, activeTournament, endpoints>>
    /\ UNCHANGED <<sstate, sname, slocal, spending, schecks, finishApplied, roomError>>
    /\ UNCHANGED <<transport, peerVars, scoreVars, mcqVars, chatVars>>

\* handleJoinTournament on the tournament the list shows
handleJoinTournament ==
    /\ transport = "lobby"
    /\ joinedTournament = Null
    /\ doc # Null
    /\ doc.status = "waiting"
    /\ IF trim(nameInput["store"]) = ""
       THEN /\ error' = [error EXCEPT !["store"] = <<"Please enter your name to join.">>]
            /\ UNCHANGED joinedTournament
       ELSE /\ joinedTournament' = <<[id |-> doc.id, name |-> trim(nameInput["store"])]>>
            /\ UNCHANGED error
    /\ UNCHANGED <<nameInput, roomCode, activeTournament, endpoints, documents>>
    /\ UNCHANGED <<transport, peerVars, storeVars, scoreVars, mcqVars, chatVars>>

\* onExit of the mounted peer room: the room unmounts and its cleanup destroys the endpoint
PeerRoomExit ==
    /\ transport = "lobby"
    /\ activeTournament # Null
    /\ activeTournament' = Null
    /\ tournament' = Null
    /\ endpoints' = endpoints - 1
    /\ UNCHANGED <<nameInput, roomCode, error, joinedTournament, documents>>
    /\ UNCHANGED <<hostPeerOpen, clientConnections, hostCrashed, fstate, fname, ftournament, toHost,
                   inbox, hostDestroyed, timed, dropped, fstart, logVars>>
    /\ UNCHANGED <<transport, storeVars, scoreVars, mcqVars, chatVars>>

\* onExit of the mounted store room
StoreRoomExit ==
    /\ transport = "lobby"
    /\ joinedTournament # Null
    /\ joinedTournament' = Null
    /\ UNCHANGED <<nameInput, roomCode, error, activeTournament, endpoints, documents>>
    /\ UNCHANGED <<transport, peerVars, storeVars, scoreVars, mcqVars, chatVars>>

NextLobby ==
    \/ \E k \in Lobbies, text \in TypedNames : SetPlayerName(k, text)
    \/ \E text \in TypedCodes : SetRoomCode(text)
    \/ \E k \in Lobbies : DismissError(k)
    \/ \E g \in GameTypes, q \in DeckOutcomes : handleCreateRoom(g, q)
    \/ handleJoinRoom
    \/ \E g \in GameTypes, q \in DeckOutcomes, added \in BOOLEAN : handleCreateTournament(g, q, added)
    \/ handleJoinTournament
    \/ PeerRoomExit
    \/ StoreRoomExit

\* no lobby is part of the run: nothing typed, no room mounted through it
LobbyRest ==
    /\ nameInput = [k \in Lobbies |-> ""]
    /\ roomCode = ""
    /\ error = [k \in Lobbies |-> Null]
    /\ activeTournament = Null
    /\ joinedTournament = Null
    /\ endpoints = 0
    /\ documents = 0

\* both lobbies just mounted, no name remembered, no tournament in the store
InitLobby ==
    /\ transport = "lobby"
    /\ tournament = Null
    /\ hostPeerOpen = FALSE
    /\ clientConnections = {}
    /\ hostCrashed = FALSE
    /\ fstate = [f \in Followers |-> "idle"]
    /\ fname = [f \in Followers |-> HostName]
    /\ ftournament = [f \in Followers |-> <<>>]
    /\ toHost = [f \in Followers |-> <<>>]
    /\ inbox = [f \in Followers |-> <<>>]
    /\ hostDestroyed = FALSE
    /\ timed = FALSE
    /\ dropped = FALSE
    /\ fstart = [f \in Followers |-> <<>>]
    /\ hlog = <<>>
    /\ sent = [f \in Followers |-> <<>>]
    /\ fpos = [f \in Followers |-> 0]
    /\ doc = Null
    /\ sstate = [p \in Participants |-> "lobby"]
    /\ sname = [p \in Participants |-> HostName]
    /\ slocal = [p \in Participants |-> <<>>]
    /\ spending = [p \in Participants |-> <<>>]
    /\ schecks = [p \in Participants |-> 0]
    /\ finishApplied = FALSE
    /\ roomError = [p \in Participants |-> <<>>]
    /\ McqRest
    /\ ChatRest
    /\ nameInput = [k \in Lobbies |-> ""]
    /\ roomCode = ""
    /\ error = [k \in Lobbies |-> Null]
    /\ activeTournament = Null
    /\ joinedTournament = Null
    /\ endpoints = 0
    /\ documents = 0
    /\ scT = 0 /\ scCorrect = FALSE /\ scApplied = FALSE
    /\ scPeer = 0 /\ scPeerNext = 0 /\ scStore = 0 /\ scStoreNext = 0

----------------------------------------------------------------------------
PeerRest ==
    /\ tournament = HostInitialState("imageToText", QuestionsOf(IdentityOrder))
    /\ hostPeerOpen = FALSE
    /\ clientConnections = {}
    /\ hostCrashed = FALSE
    /\ fstate = [f \in Followers |-> "idle"]
    /\ fname = [f \in Followers |-> HostName]
    /\ ftournament = [f \in Followers |-> <<>>]
    /\ toHost = [f \in Followers |-> <<>>]
    /\ inbox = [f \in Followers |-> <<>>]
    /\ hostDestroyed = FALSE
    /\ timed = FALSE
    /\ dropped = FALSE
    /\ fstart = [f \in Followers |-> <<>>]
    /\ hlog = <<>>
    /\ sent = [f \in Followers |-> <<>>]
    /\ fpos = [f \in Followers |-> 0]

StoreRest ==
    /\ doc = createTournament(HostName, "imageToText", QuestionsOf(IdentityOrder))
    /\ sstate = [p \in Participants |-> "lobby"]
    /\ sname = [p \in Participants |-> HostName]
    /\ slocal = [p \in Participants |-> <<>>]
    /\ spending = [p \in Participants |-> <<>>]
    /\ schecks = [p \in Participants |-> 0]
    /\ finishApplied = FALSE
    /\ roomError = [p \in Participants |-> <<>>]
    /\ McqRest
    /\ ChatRest
    /\ LobbyRest

ScoreRest ==
    /\ scT = 0 /\ scCorrect = FALSE /\ scApplied = FALSE
    /\ scPeer = 0 /\ scPeerNext = 0 /\ scStore = 0 /\ scStoreNext = 0

\* the host's room just mounted: the initialisation effect has run once, on one of
\* the game modes G and deck orders O; timing switches the followers' timers on,
\* logging the history of the host's snapshots
InitPeerIn(G, O, timing, logging) ==
    /\ transport = "peer"
    /\ \E g \in G, o \in O :
          tournament = HostInitialState(g, QuestionsOf(o))
    /\ hostPeerOpen = FALSE
    /\ clientConnections = {}
    /\ hostCrashed = FALSE
    /\ fstate = [f \in Followers |-> "idle"]
    /\ fname = [f \in Followers |-> HostName]
    /\ ftournament = [f \in Followers |-> <<>>]
    /\ toHost = [f \in Followers |-> <<>>]
    /\ inbox = [f \in Followers |-> <<>>]
    /\ hostDestroyed = FALSE
    /\ timed = timing
    /\ dropped = FALSE
    /\ fstart = [f \in Followers |-> <<>>]
    /\ hlog = IF logging THEN <<tournament>> ELSE <<>>
    /\ sent = [f \in Followers |-> <<>>]
    /\ fpos = [f \in Followers |-> 0]
    /\ StoreRest /\ ScoreRest

InitPeer == InitPeerIn(GameTypes, Orders, FALSE, FALSE)

\* the one game mode and deck order the two-follower runs use
PairGames == {"audioToImage"}
PairOrders == {IdentityOrder}
InitPair == InitPeerIn(PairGames, PairOrders, FALSE, FALSE)
\* the same, with the history of the host's snapshots recorded
InitOrder == InitPeerIn(PairGames, PairOrders, FALSE, TRUE)
\* one follower, with the followers' question timers observed
InitTimed == InitPeerIn(PairGames, PairOrders, TRUE, FALSE)

\* the creator's createTournament resolved and its room just mounted
InitStore ==
    /\ transport = "store"
    /\ \E g \in GameTypes :
          doc = createTournament(HostName, g, QuestionsOf(IdentityOrder))
    /\ sstate = [p \in Participants |-> IF p = Creator THEN "room" ELSE "lobby"]
    /\ sname = [p \in Participants |-> HostName]
    /\ slocal = [p \in Participants |-> <<>>]
    /\ spending = [p \in Participants |-> <<>>]
    /\ schecks = [p \in Participants |-> 0]
    /\ finishApplied = FALSE
    /\ roomError = [p \in Participants |-> <<>>]
    /\ McqRest
    /\ ChatRest
    /\ LobbyRest
    /\ PeerRest /\ ScoreRest

\* scoring engine: one elapsed time and one verdict, then the increment is computed
InitScore ==
    /\ transport = "score"
    /\ scT \in 0..MaxElapsed
    /\ scCorrect \in BOOLEAN
    /\ scApplied = FALSE
    /\ scPeer = 0 /\ scPeerNext = 0 /\ scStore = 0 /\ scStoreNext = 0
    /\ PeerRest /\ StoreRest

\* both transports' increment for (scCorrect, scT) and for one millisecond later
ComputeIncrement ==
    /\ transport = "score"
    /\ ~scApplied
    /\ scApplied' = TRUE
    /\ scPeer' = scoreIncrement(scCorrect, scT)
    /\ scPeerNext' = scoreIncrement(scCorrect, scT + 1)
    /\ scStore' = storeScoreIncrement(scCorrect, scT)
    /\ scStoreNext' = storeScoreIncrement(scCorrect, scT + 1)
    /\ UNCHANGED <<scT, scCorrect, transport, peerVars, storeVars, lobbyVars, mcqVars, chatVars>>

NextScore == ComputeIncrement

\* both transports at the start of play, same game type and same question list
InitReplay ==
    /\ transport = "replay"
    /\ \E g \in GameTypes, o \in Orders :
          /\ tournament = ReplayPeerStart(g, QuestionsOf(o))
          /\ doc = ReplayStoreStart(g, QuestionsOf(o))
    /\ hostPeerOpen = FALSE
    /\ clientConnections = {}
    /\ hostCrashed = FALSE
    /\ fstate = [f \in Followers |-> "idle"]
    /\ fname = [f \in Followers |-> HostName]
    /\ ftournament = [f \in Followers |-> <<>>]
    /\ toHost = [f \in Followers |-> <<>>]
    /\ inbox = [f \in Followers |-> <<>>]
    /\ hostDestroyed = FALSE
    /\ timed = FALSE
    /\ dropped = FALSE
    /\ fstart = [f \in Followers |-> <<>>]
    /\ hlog = <<>>
    /\ sent = [f \in Followers |-> <<>>]
    /\ fpos = [f \in Followers |-> 0]
    /\ sstate = [p \in Participants |-> "lobby"]
    /\ sname = [p \in Participants |-> HostName]
    /\ slocal = [p \in Participants |-> <<>>]
    /\ spending = [p \in Participants |-> <<>>]
    /\ schecks = [p \in Participants |-> 0]
    /\ finishApplied = FALSE
    /\ roomError = [p \in Participants |-> <<>>]
    /\ McqRest
    /\ ChatRest
    /\ LobbyRest
    /\ ScoreRest

\* a host's room and a store room of the same creator, both waiting, nobody else in
InitJoins ==
    /\ transport = "joins"
    /\ \E g \in GameTypes, o \in Orders :
          /\ tournament = HostInitialState(g, QuestionsOf(o))
          /\ doc = createTournament(HostName, g, QuestionsOf(o))
    /\ hostPeerOpen = TRUE
    /\ clientConnections = {}
    /\ hostCrashed = FALSE
    /\ fstate = [f \in Followers |-> "idle"]
    /\ fname = [f \in Followers |-> HostName]
    /\ ftournament = [f \in Followers |-> <<>>]
    /\ toHost = [f \in Followers |-> <<>>]
    /\ inbox = [f \in Followers |-> <<>>]
    /\ hostDestroyed = FALSE
    /\ timed = FALSE
    /\ dropped = FALSE
    /\ fstart = [f \in Followers |-> <<>>]
    /\ hlog = <<>>
    /\ sent = [f \in Followers |-> <<>>]
    /\ fpos = [f \in Followers |-> 0]
    /\ sstate = [p \in Participants |-> IF p = Creator THEN "room" ELSE "lobby"]
    /\ sname = [p \in Participants |-> HostName]
    /\ slocal = [p \in Participants |-> <<>>]
    /\ spending = [p \in Participants |-> <<>>]
    /\ schecks = [p \in Participants |-> 0]
    /\ finishApplied = FALSE
    /\ roomError = [p \in Participants |-> <<>>]
    /\ McqRest
    /\ ChatRest
    /\ LobbyRest
    /\ ScoreRest

\* a store tournament that its creator has started, with a second participant in
InitWrites ==
    /\ transport = "writes"
    /\ PeerRest
    /\ \E c \in JoinNames, j \in JoinNames, g \in GameTypes :
          /\ doc = WritesStart(c, j, g, QuestionsOf(IdentityOrder))
          /\ sname = [p \in Participants |-> IF p = Creator THEN c ELSE j]
    /\ sstate = [p \in Participants |-> "room"]
    /\ slocal = [p \in Participants |-> <<>>]
    /\ spending = [p \in Participants |-> <<>>]
    /\ schecks = [p \in Participants |-> 0]
    /\ finishApplied = FALSE
    /\ roomError = [p \in Participants |-> <<>>]
    /\ McqRest
    /\ ChatRest
    /\ LobbyRest
    /\ ScoreRest

\* both transports at the start of play of a match mode, both players on the first
\* question, each room showing the options its effect drew
InitMcq ==
    /\ transport = "mcq"
    /\ \E g \in McqGames :
          /\ tournament = ReplayPeerStart(g, McqQuestions)
          /\ doc = ReplayStoreStart(g, McqQuestions)
    /\ hostPeerOpen = FALSE
    /\ clientConnections = {}
    /\ hostCrashed = FALSE
    /\ fstate = [f \in Followers |-> "idle"]
    /\ fname = [f \in Followers |-> HostName]
    /\ ftournament = [f \in Followers |-> <<>>]
    /\ toHost = [f \in Followers |-> <<>>]
    /\ inbox = [f \in Followers |-> <<>>]
    /\ hostDestroyed = FALSE
    /\ timed = FALSE
    /\ dropped = FALSE
    /\ fstart = [f \in Followers |-> <<>>]
    /\ hlog = <<>>
    /\ sent = [f \in Followers |-> <<>>]
    /\ fpos = [f \in Followers |-> 0]
    /\ sstate = [p \in Participants |-> "lobby"]
    /\ sname = [p \in Participants |-> HostName]
    /\ slocal = [p \in Participants |-> <<>>]
    /\ spending = [p \in Participants |-> <<>>]
    /\ schecks = [p \in Participants |-> 0]
    /\ finishApplied = FALSE
    /\ roomError = [p \in Participants |-> <<>>]
    /\ selectedMcqId = [n \in Names |-> Null]
    /\ submitted = [n \in Names |-> <<>>]
    /\ \E oa \in mcqOptionsEffect(tournament, HostName, <<>>), ob \in mcqOptionsEffect(tournament, "b", <<>>) :
          mcqOptions = [n \in Names |-> IF n = HostName THEN oa ELSE ob]
    /\ LobbyRest /\ ScoreRest /\ ChatRest

\* every chat component just mounted; the tournament rooms are not part of the run
InitChat ==
    /\ transport = "chat"
    /\ PeerRest /\ StoreRest /\ ScoreRest

Init == InitPeer \/ InitStore
Next == NextPeer \/ NextStore
Spec == Init /\ [][Next]_vars
SpecPeer == InitPeer /\ [][NextPeer]_vars
SpecStore == InitStore /\ [][NextStore]_vars
SpecScore == InitScore /\ [][NextScore]_vars
SpecPair == InitPair /\ [][NextPair]_vars
SpecOrder == InitOrder /\ [][NextPair]_vars
SpecTimed == InitTimed /\ [][NextPeer]_vars
SpecReplay == InitReplay /\ [][NextReplay]_vars
SpecJoins == InitJoins /\ [][NextJoins]_vars
SpecWrites == InitWrites /\ [][NextWrites]_vars
SpecLobby == InitLobby /\ [][NextLobby]_vars
SpecGone == InitStore /\ [][NextGone]_vars
SpecMcq == InitMcq /\ [][NextMcq]_vars
SpecChat == InitChat /\ [][NextChat]_vars

\* the store applies every write it has received and every getDoc returns; the
\* host handles every message a connection delivered
Fairness ==
    /\ \A p \in Participants : WF_vars(StoreApply(p)) /\ WF_vars(StoreFinishCheck(p))
    /\ \A f \in Solo : WF_vars(HostReceive(f))
SpecLive == Init /\ [][Next]_vars /\ Fairness

\* peer transport: every message a connection delivered is handled, at the host
\* and at the follower, and the host handles the close of a connection whose
\* follower left; what a user does (submit, leave) is never forced
PeerFairness ==
    \A f \in Solo : /\ WF_vars(HostReceive(f))
                    /\ WF_vars(FollowerReceive(f))
                    /\ WF_vars(HostConnClose(f))
SpecPeerLive == InitPeer /\ [][NextPeer]_vars /\ PeerFairness

----------------------------------------------------------------------------
\* Events the claims speak of

Rank(status) == CASE status = "waiting" -> 0 [] status = "playing" -> 1 [] status = "finished" -> 2

HeadIs(f, type) == f \in clientConnections /\ toHost[f] # <<>> /\ Head(toHost[f]).type = type

\* the host applies a JOIN_REQUEST
JoinApplied == \E f \in Followers : HeadIs(f, "JOIN_REQUEST") /\ HostReceive(f)
\* the host applies a SUBMIT_ANSWER (a follower's, or its own submitAnswer)
SubmitApplied ==
    \/ \E f \in Followers : HeadIs(f, "SUBMIT_ANSWER") /\ HostReceive(f)
    \/ \E a \in AllAnswers, t \in Times : HostSubmit(a, t)
\* the host handles a connection close
CloseApplied == \E f \in Followers : HostConnClose(f)
\* the store applies a write of the given kind
WriteApplied(op) == \E p \in Participants : spending[p] # <<>> /\ Head(spending[p]).op = op /\ StoreApply(p)
AnyWriteApplied == \E p \in Participants : StoreApply(p)

Common(m1, m2) == (DOMAIN m1) \cap (DOMAIN m2)

----------------------------------------------------------------------------
\* C1: in both transports the status only moves waiting -> playing -> finished;
\* no step of either transport returns it to an earlier value.
C1_StatusNeverRegresses ==
    [][/\ Rank(tournament'.status) >= Rank(tournament.status)
       /\ Rank(doc'.status) >= Rank(doc.status)]_vars

\* C2: once status = finished, a further JOIN_REQUEST / join write, SUBMIT_ANSWER /
\* player write, start or finish check leaves the whole snapshot as it was.
C2_FinishedIsFrozen ==
    [][/\ (tournament.status = "finished" /\ (JoinApplied \/ SubmitApplied \/ HostStart))
            => tournament' = tournament
       /\ (doc.status = "finished" /\ AnyWriteApplied) => doc' = doc]_vars

\* C3: a join that is applied while status is playing or finished (a JOIN_REQUEST
\* at the host, a join write at the store) leaves the player map unchanged.
C3_JoinOnlyWhileWaiting ==
    [][/\ (tournament.status # "waiting" /\ JoinApplied) => tournament'.players = tournament.players
       /\ (doc.status # "waiting" /\ WriteApplied("join")) => doc'.players = doc.players]_vars

\* C4: peer transport: across JOIN_REQUEST, SUBMIT_ANSWER, start and connection
\* close, the score of a name that stays in the host's map never decreases.
C4_PeerScoreNeverDecreases ==
    [][(JoinApplied \/ SubmitApplied \/ HostStart \/ CloseApplied)
          => \A n \in Common(tournament.players, tournament'.players) :
                tournament'.players[n].score >= tournament.players[n].score]_vars

\* C5: store transport: the value stored at players.<id>.score never decreases,
\* whatever the interleaving of snapshot deliveries, join writes and answer writes.
C5_StoreScoreNeverDecreases ==
    [][\A n \in Common(doc.players, doc'.players) :
          doc'.players[n].score >= doc.players[n].score]_vars

\* C6: in every reachable state of either transport every player has
\* 0 <= currentQuestionIndex <= len(questions), and a player whose index equals
\* len(questions) has isFinished = true.
IndexBounded(t) ==
    \A n \in DOMAIN t.players :
        /\ 0 <= t.players[n].currentQuestionIndex
        /\ t.players[n].currentQuestionIndex <= Len(t.questions)
        /\ (t.players[n].currentQuestionIndex = Len(t.questions) => t.players[n].isFinished)
C6_IndexBoundedAndFinished == IndexBounded(tournament) /\ IndexBounded(doc)

\* C7: across join, submit-answer and disconnect events of either transport, for a
\* name that stays in the map currentQuestionIndex never decreases and isFinished,
\* once true, stays true.
NoRegress(m1, m2) ==
    \A n \in Common(m1, m2) :
        /\ m2[n].currentQuestionIndex >= m1[n].currentQuestionIndex
        /\ (m1[n].isFinished => m2[n].isFinished)
C7_ProgressNeverRegresses ==
    [][/\ (JoinApplied \/ SubmitApplied \/ CloseApplied) => NoRegress(tournament.players, tournament'.players)
       /\ AnyWriteApplied => NoRegress(doc.players, doc'.players)]_vars

\* C8: the increment is max(0, 1000 - floor(t/20)) for a correct answer and 0
\* otherwise, in both transports; for every t >= 0 it lies in [0, 1000], does not
\* grow when t grows, and is 0 for an incorrect answer.
IncrementLaw(inc, incNext) ==
    /\ inc = (IF scCorrect THEN Max(0, 1000 - (scT \div 20)) ELSE 0)
    /\ 0 <= inc /\ inc <= 1000
    /\ incNext <= inc
    /\ (~scCorrect => inc = 0)
C8_ScoreIncrement ==
    scApplied => IncrementLaw(scPeer, scPeerNext) /\ IncrementLaw(scStore, scStoreNext)
\* a correct answer so slow that the clamp decides the increment
C8_Witness ==
    scApplied /\ scCorrect /\ scT > MaxPoints * MsPerPoint /\ scPeer = 0 /\ scStore = 0

\* C9: peer transport: when the host applies a correct answer with elapsed time t
\* for an unfinished player, and some player is still unfinished afterwards, that
\* player's score grows by exactly max(0, 1000 - floor(t/20)), their index grows by
\* exactly 1, and the status is left as it was (playing stays playing).
CorrectAnswerEffect(pName, answer, timeTaken) ==
    LET before == tournament.players[pName]
        idx == before.currentQuestionIndex
    IN  ( /\ ~before.isFinished
          /\ idx < Len(tournament.questions)
          /\ peerIsCorrect(tournament, tournament.questions[idx + 1], answer)
          /\ pName \in DOMAIN tournament'.players
          /\ \E n \in DOMAIN tournament'.players : ~tournament'.players[n].isFinished )
        => /\ tournament'.players[pName].score = before.score + Max(0, 1000 - (timeTaken \div 20))
           /\ tournament'.players[pName].currentQuestionIndex = idx + 1
           /\ tournament'.status = tournament.status
           /\ (tournament.status = "playing" => tournament'.status = "playing")
C9_CorrectAnswerApplied ==
    [][/\ \A f \in Followers :
            (HeadIs(f, "SUBMIT_ANSWER") /\ HostReceive(f)
                /\ Head(toHost[f]).playerId \in DOMAIN tournament.players)
            => CorrectAnswerEffect(Head(toHost[f]).playerId, Head(toHost[f]).answer,
                                   Head(toHost[f]).timeTaken)
       /\ \A a \in AllAnswers, t \in Times :
            HostSubmit(a, t) => CorrectAnswerEffect(HostName, a, t)]_vars
\* a follower that joined while waiting has answered its first question correctly
\* at 500 ms: score 975, index 1, status playing
C9_Witness ==
    /\ transport = "peer" /\ tournament.status = "playing"
    /\ "b" \in DOMAIN tournament.players
    /\ tournament.players["b"].id = "f1"
    /\ tournament.players["b"].score = 975
    /\ tournament.players["b"].currentQuestionIndex = 1
    /\ ~tournament.players["b"].isFinished

\* C10: the move to finished needs no user action: at the host, the step that
\* applies a submission after which every player is finished also sets status to
\* finished; in the store, whenever every player is finished and a submitter's
\* finish check is outstanding, status eventually is finished (unless a write
\* makes some player unfinished again first).
AllFinishedAfter == \A n \in DOMAIN tournament'.players : tournament'.players[n].isFinished
CheckOutstanding == \E p \in Participants : schecks[p] > 0
C10_FinishIsAutomatic ==
    /\ [][(SubmitApplied /\ tournament' # tournament /\ AllFinishedAfter)
            => tournament'.status = "finished"]_vars
    /\ [](( transport = "store" /\ allPlayersFinished(doc) /\ CheckOutstanding )
            => <>(doc.status = "finished" \/ ~allPlayersFinished(doc)))
\* two store participants have both answered every question and the document is finished
C10_Witness ==
    /\ transport = "store" /\ doc.status = "finished"
    /\ DOMAIN doc.players = Names
    /\ allPlayersFinished(doc)

\* C11: replaying the same sequence of submissions through the peer transport and
\* through the store transport gives every player the same score, the same
\* currentQuestionIndex and the same isFinished in both.
SameProgress(n) ==
    /\ tournament.players[n].score = doc.players[n].score
    /\ tournament.players[n].currentQuestionIndex = doc.players[n].currentQuestionIndex
    /\ tournament.players[n].isFinished = doc.players[n].isFinished
C11_CrossTransportScoring ==
    transport = "replay" =>
        /\ DOMAIN tournament.players = DOMAIN doc.players
        /\ \A n \in DOMAIN tournament.players : SameProgress(n)
\* both players have answered every question; "b" scored 1000 and then 975
C11_Witness ==
    /\ transport = "replay"
    /\ \A n \in Names : tournament.players[n].isFinished /\ doc.players[n].isFinished
    /\ tournament.players["b"].score = 1975 /\ doc.players["b"].score = 1975

\* C12: peer transport: whenever the host's snapshot changes, a STATE_UPDATE that
\* carries the new snapshot is queued for every follower whose connection is
\* registered at that moment; hence a connected follower with nothing left in
\* flight in either direction holds exactly the host's snapshot.
Reachable(f) == f \in clientConnections /\ fstate[f] = "connected"
SentNewSnapshot(f) ==
    /\ Len(inbox'[f]) = Len(inbox[f]) + 1
    /\ inbox'[f][Len(inbox'[f])] = tournament'
Quiet(f) == Reachable(f) /\ inbox[f] = <<>> /\ toHost[f] = <<>>
C12_BroadcastOnEveryChange ==
    /\ [][tournament' # tournament =>
            \A f \in clientConnections' : fstate[f] = "connected" => SentNewSnapshot(f)]_vars
    /\ [](\A f \in Followers : Quiet(f) => ftournament[f] = <<tournament>>)
\* both followers are connected and hold the host's snapshot of a game in which
\* a player has scored
C12_Witness ==
    /\ \A f \in Followers : Quiet(f) /\ ftournament[f] = <<tournament>>
    /\ tournament.status = "playing"
    /\ \E n \in DOMAIN tournament.players : tournament.players[n].score > 0

\* C13: peer transport: a step that changes the host's snapshot queues exactly one
\* STATE_UPDATE, carrying the new snapshot, for each registered follower and
\* nothing for anyone else; a SUBMIT_ANSWER the host rejects (the submitter has no
\* current question, so the snapshot stays as it was) queues nothing at all.
OneUpdateEach ==
    \A f \in Followers :
        inbox'[f] = IF f \in clientConnections' /\ fstate[f] = "connected"
                    THEN Append(inbox[f], tournament')
                    ELSE inbox[f]
RejectedSubmit(f) ==
    HeadIs(f, "SUBMIT_ANSWER") /\ HostReceive(f) /\ tournament' = tournament
C13_OneBroadcastPerChange ==
    [][/\ tournament' # tournament => OneUpdateEach
       /\ \A f \in Followers : RejectedSubmit(f) => inbox' = inbox]_vars
\* the host has dropped a late SUBMIT_ANSWER of a follower that had already
\* finished, and both followers hold the snapshot of the running game
C13_Witness ==
    /\ \A f \in Followers : Quiet(f) /\ ftournament[f] = <<tournament>>
    /\ tournament.status = "playing"
    /\ \E n \in DOMAIN tournament.players :
          /\ tournament.players[n].isFinished
          /\ tournament.players[n].id \in Followers
    /\ dropped

\* C14: peer transport: the snapshot a follower holds is one the host went through,
\* and every STATE_UPDATE a follower applies lies later in the host's history than
\* the one it applied before: each follower applies an in-order subsequence of the
\* host's sequence of snapshots, never an older one after a newer one, so no two
\* followers see two host states in opposite orders.
HoldsHostSnapshot(f) ==
    (fstate[f] = "connected" /\ fpos[f] > 0) =>
        /\ fpos[f] <= Len(hlog)
        /\ ftournament[f] = <<hlog[fpos[f]]>>
AppliesNewer(f) ==
    /\ fpos'[f] >= fpos[f]
    /\ FollowerReceive(f) => fpos'[f] > fpos[f]
OnlyUpdatesChange(f) ==
    ftournament'[f] # ftournament[f] =>
        \/ FollowerReceive(f) /\ ftournament'[f] = <<Head(inbox[f])>>
        \/ FollowerExit(f) /\ ftournament'[f] = <<>>
SubmitKeepsSnapshot(f) ==
    \A a \in AllAnswers, t \in Times :
        FollowerSubmit(f, a, t) => ftournament'[f] = ftournament[f]
C15_FollowerNeverMutates ==
    [][\A f \in Followers : OnlyUpdatesChange(f) /\ SubmitKeepsSnapshot(f)]_vars
\* the host has scored f1's first answer and queued the broadcast; f1's own snapshot
\* still shows it on the first question with no points
C15_Witness ==
    /\ fstate["f1"] = "connected" /\ fname["f1"] = "b"
    /\ "b" \in DOMAIN tournament.players
    /\ tournament.players["b"].currentQuestionIndex = 1
    /\ tournament.players["b"].score = 975
    /\ ftournament["f1"] # <<>>
    /\ ftournament["f1"][1].status = "playing"
    /\ "b" \in DOMAIN ftournament["f1"][1].players
    /\ ftournament["f1"][1].players["b"].currentQuestionIndex = 0
    /\ ftournament["f1"][1].players["b"].score = 0
    /\ inbox["f1"] = <<tournament>>

\* C16: peer transport: a follower sends a SUBMIT_ANSWER only when none of its own
\* is unacknowledged: nothing of its own is on the way to the host, and the index
\* its snapshot shows for it is the index the host holds for it (every submission
\* the host has applied has come back in a STATE_UPDATE the follower has applied).
Acknowledged(f) ==
    /\ toHost[f] = <<>>
    /\ tournament.players[fname[f]].currentQuestionIndex
         = ftournament[f][1].players[fname[f]].currentQuestionIndex
JoinedAs(f) ==
    /\ fname[f] # HostName
    /\ fname[f] \in DOMAIN tournament.players
    /\ tournament.players[fname[f]].id = f
C16_OneSubmissionInFlight ==
    [][\A f \in Followers : \A a \in AllAnswers, t \in Times :
            (FollowerSubmit(f, a, t) /\ JoinedAs(f)) => Acknowledged(f)]_vars

\* C17: peer transport: the step in which the host handles the close of follower
\* f's connection takes f out of the broadcast set, leaves no player whose id is
\* f's connection, keeps every other player's entry as it was, adds no entry, and
\* queues the resulting snapshot for every follower that remains registered (and
\* nothing for f).
CloseEffect(f) ==
    /\ clientConnections' = clientConnections \ {f}
    /\ \A n \in DOMAIN tournament'.players : tournament'.players[n].id # f
    /\ DOMAIN tournament'.players \subseteq DOMAIN tournament.players
    /\ \A n \in DOMAIN tournament.players :
          tournament.players[n].id # f =>
              /\ n \in DOMAIN tournament'.players
              /\ tournament'.players[n] = tournament.players[n]
    /\ \A g \in Followers :
          inbox'[g] = IF g \in clientConnections' /\ fstate[g] = "connected"
                      THEN Append(inbox[g], tournament')
                      ELSE inbox[g]
C17_CloseRemovesPlayer ==
    [][\A f \in Followers : HostConnClose(f) => CloseEffect(f)]_vars
\* f1 had joined as b and left; the host's last step handled the close: b is gone,
\* the host's own entry is as before, and f2, still registered, was sent the result
C17_Witness ==
    /\ Len(hlog) >= 2
    /\ LET before == hlog[Len(hlog) - 1]
       IN  /\ "b" \in DOMAIN before.players /\ before.players["b"].id = "f1"
           /\ HostName \in DOMAIN before.players
           /\ HostName \in DOMAIN tournament.players
           /\ tournament.players[HostName] = before.players[HostName]
    /\ hlog[Len(hlog)] = tournament
    /\ "b" \notin DOMAIN tournament.players
    /\ fstate["f1"] = "left" /\ "f1" \notin clientConnections
    /\ Reachable("f2")
    /\ inbox["f2"] # <<>> /\ inbox["f2"][Len(inbox["f2"])] = tournament

\* C18: peer transport: a follower whose host has left (its endpoint destroyed)
\* does not stay connected in the waiting or playing view for ever: it eventually
\* shows the error view (or has left the room).
LostHost(f) == hostDestroyed /\ fstate[f] = "connected"
C18_LostConnectionSurfaces ==
    \A f \in Solo : LostHost(f) ~> (fstate[f] \in {"error", "left"})

\* C19: in both transports a step that takes the status from waiting to playing is
\* the creator's start: at the host, the press of "Start Game for Everyone"; in the
\* store, the application of a start write issued by the participant that created
\* the document.
PeerStarted == tournament.status = "waiting" /\ tournament'.status = "playing"
StoreStarted == doc.status = "waiting" /\ doc'.status = "playing"
CreatorStartApplied ==
    /\ spending[Creator] # <<>>
    /\ Head(spending[Creator]) = startTournament
    /\ StoreApply(Creator)
C19_OnlyCreatorStarts ==
    [][/\ (transport = "peer" /\ PeerStarted) => HostStart
       /\ (transport = "store" /\ StoreStarted) => CreatorStartApplied]_vars

\* C20: peer transport: once a follower's question timer has been set (by the
\* first STATE_UPDATE that showed playing, or by its own submission), applying a
\* later STATE_UPDATE leaves it as it was; only the follower's own submission sets
\* it again.
TimerRunning(f) == timed /\ fstate[f] = "connected" /\ fstart[f] # <<>>
C20_TimerSetOnce ==
    [][\A f \in Solo : (TimerRunning(f) /\ FollowerReceive(f)) => fstart'[f] = fstart[f]]_vars

\* C21: after any sequence of joins applied while the tournament is waiting, the
\* player map has as many entries as there are distinct display names among the
\* creator and the joiners, in the peer transport and in the store transport.
PeerJoinedNames == {HostName} \cup {fname[f] : f \in {g \in Followers : fstate[g] = "connected"}}
StoreJoinedNames == {sname[p] : p \in {q \in Participants : sstate[q] = "room"}}
C21_OneEntryPerName ==
    transport = "joins" =>
        /\ Cardinality(DOMAIN tournament.players) = Cardinality(PeerJoinedNames)
        /\ Cardinality(DOMAIN doc.players) = Cardinality(StoreJoinedNames)

\* C22: in both transports, when a participant joins under a display name that is
\* already a key of the player map, the entry of that name is replaced by a fresh
\* one (score 0, index 0, not finished): at the host, by the step that applies the
\* JOIN_REQUEST; in the store, by the join write that the joining room issues on
\* its first snapshot and that the store then applies.
Fresh(entry) == entry.score = 0 /\ entry.currentQuestionIndex = 0 /\ ~entry.isFinished
PeerJoinOverwrites(f) ==
    (HeadIs(f, "JOIN_REQUEST") /\ HostReceive(f)
        /\ Head(toHost[f]).name \in DOMAIN tournament.players)
    => /\ Head(toHost[f]).name \in DOMAIN tournament'.players
       /\ Fresh(tournament'.players[Head(toHost[f]).name])
       /\ tournament'.players[Head(toHost[f]).name].id = f
StoreJoinOverwrites(p) ==
    /\ ( spending[p] # <<>> /\ Head(spending[p]).op = "join" /\ StoreApply(p)
         /\ Head(spending[p]).name \in DOMAIN doc.players )
       => Fresh(doc'.players[Head(spending[p]).name])
    /\ ( StoreSnapshot(p) /\ slocal[p] = <<>>
         /\ sname[p] \in DOMAIN doc.players /\ ~Fresh(doc.players[sname[p]]) )
       => /\ spending'[p] # <<>>
          /\ spending'[p][Len(spending'[p])] = joinTournament(sname[p])
C22_LaterJoinOverwrites ==
    [][/\ \A f \in Followers : PeerJoinOverwrites(f)
       /\ \A p \in Participants \ {Creator} : StoreJoinOverwrites(p)]_vars

\* C23: in both transports no step (join, start, submit, finish check, disconnect,
\* or a change of the host's flashcard deck) alters the question sequence of the
\* tournament: its length, order and content stay those fixed at creation.
C23_QuestionsFixed ==
    [][/\ tournament'.questions = tournament.questions
       /\ doc'.questions = doc.questions]_vars

\* C24: store transport: the write of an answer submitted by the player named p
\* changes nothing in the document but the score, index and finished flag of p's
\* entry: the key set of the player map, every other player's entry, p's id and
\* name, and status, questions, creatorId and gameType stay as they were.
OnlyOwnFields(p) ==
    LET name == sname[p]
    IN  /\ DOMAIN doc'.players = DOMAIN doc.players
        /\ \A n \in (DOMAIN doc.players) \ {name} : doc'.players[n] = doc.players[n]
        /\ doc'.players[name].id = doc.players[name].id
        /\ doc'.players[name].name = doc.players[name].name
        /\ doc'.status = doc.status /\ doc'.questions = doc.questions
        /\ doc'.creatorId = doc.creatorId /\ doc'.gameType = doc.gameType
C24_SubmitWritesOwnFields ==
    [][\A p \in Participants : \A a \in AllAnswers, t \in Times :
            WritesSubmit(p, a, t) => OnlyOwnFields(p)]_vars

\* C25: store transport: for two participants with different player ids and a
\* third id, the two answer writes computed from the current document and the join
\* write of the third id give the same document in whichever order the store
\* applies them.
Apply3(d, w1, w2, w3) == updateDoc(updateDoc(updateDoc(d, w1), w2), w3)
SameInEveryOrder(d, w1, w2, w3) ==
    LET r == Apply3(d, w1, w2, w3)
    IN  /\ Apply3(d, w1, w3, w2) = r /\ Apply3(d, w2, w1, w3) = r
        /\ Apply3(d, w2, w3, w1) = r /\ Apply3(d, w3, w1, w2) = r
        /\ Apply3(d, w3, w2, w1) = r
        /\ updateDoc(updateDoc(d, w1), w2) = updateDoc(updateDoc(d, w2), w1)
C25_DifferentFieldsCommute ==
    transport = "writes" =>
        LET n1 == sname[Creator]
            n2 == sname["p2"]
        IN  (n1 # n2 /\ CanAnswer(doc, n1) /\ CanAnswer(doc, n2)) =>
                \A a1 \in AnswerChoices(doc.gameType), a2 \in AnswerChoices(doc.gameType),
                   t1 \in Times, t2 \in Times, n3 \in JoinNames \ {n1, n2} :
                    SameInEveryOrder(doc, handleCheckAnswer(doc, n1, a1, t1),
                                          handleCheckAnswer(doc, n2, a2, t2),
                                          joinTournament(n3))

\* C26: store transport: a finish check issues its write only when every player of
\* the document it read is finished, reading changes nothing, and once a finish
\* write has set the status to finished, the write of any later finish check, by
\* any participant, leaves the document as it is.
FinishWriteApplied(p) ==
    spending[p] # <<>> /\ Head(spending[p]) = finishTournament /\ StoreApply(p)
C26_FinishCheckIdempotent ==
    [][\A p \in Participants :
          /\ (StoreFinishCheck(p) /\ spending'[p] # spending[p]) => allPlayersFinished(doc)
          /\ StoreFinishCheck(p) => doc' = doc
          /\ (finishApplied /\ FinishWriteApplied(p)) => doc' = doc]_vars

\* C27: a submission for a player whose index already equals the number of
\* questions is rejected: the host handling such a SUBMIT_ANSWER keeps its snapshot
\* and queues no STATE_UPDATE; a store participant whose player is at that index in
\* the document issues no write.
AtEnd(t, name) ==
    name \in DOMAIN t.players /\ t.players[name].currentQuestionIndex = Len(t.questions)
PeerRejectsFinished(f) ==
    (HeadIs(f, "SUBMIT_ANSWER") /\ HostReceive(f) /\ AtEnd(tournament, Head(toHost[f]).playerId))
    => tournament' = tournament /\ inbox' = inbox
StoreRejectsFinished(p) ==
    \A a \in AllAnswers, t \in Times :
        (StoreSubmit(p, a, t) /\ AtEnd(doc, sname[p])) => spending' = spending
C27_FinishedSubmitRejected ==
    [][/\ \A f \in Followers : PeerRejectsFinished(f)
       /\ \A p \in Participants : StoreRejectsFinished(p)]_vars

\* C28: peer transport: the host handling a SUBMIT_ANSWER whose playerId is not a
\* key of its player map keeps its snapshot and keeps running: the handler raises
\* no exception.
UnknownSubmit(f) ==
    HeadIs(f, "SUBMIT_ANSWER") /\ HostReceive(f)
        /\ Head(toHost[f]).playerId \notin DOMAIN tournament.players
C28_UnknownPlayerDropped ==
    [][\A f \in Followers : UnknownSubmit(f) => (tournament' = tournament /\ ~hostCrashed')]_vars

\* C29: in every reachable state of either transport every entry of the player map
\* is keyed by the player's display name, and its id equals that display name.
KeyedByName(t) ==
    \A n \in DOMAIN t.players : t.players[n].name = n /\ t.players[n].id = n
C29_IdIsDisplayName ==
    KeyedByName(tournament) /\ KeyedByName(doc)

\* C30: peer transport: every STATE_UPDATE queued for a follower carries the host's
\* session identifier as tournament id, and once the host's snapshot holds the
\* identifier no later step replaces it by the empty placeholder.
C30_IdentifierInEveryUpdate ==
    /\ [](\A f \in Followers : \A i \in DOMAIN inbox[f] : inbox[f][i].id = HostPeerId)
    /\ [][tournament.id = HostPeerId => tournament'.id = HostPeerId]_vars

\* C31: a tournament that has just been created, by the host's room in the peer
\* transport or by createTournament in the store transport, has status waiting,
\* creatorId equal to the creator's (trimmed) name, and a player map whose only
\* entry is the creator's, with score 0, index 0 and not finished.
NewlyCreated(t, name) ==
    /\ t.status = "waiting"
    /\ t.creatorId = name
    /\ DOMAIN t.players = {name}
    /\ t.players[name].name = name
    /\ t.players[name].score = 0
    /\ t.players[name].currentQuestionIndex = 0
    /\ ~t.players[name].isFinished
HostRoomMounted ==
    activeTournament = Null /\ activeTournament' # Null /\ activeTournament'[1].isHost
DocumentAdded == documents' = documents + 1
C31_NewTournamentSeeded ==
    [][/\ HostRoomMounted => NewlyCreated(tournament', trim(nameInput["peer"]))
       /\ DocumentAdded => NewlyCreated(doc', trim(nameInput["store"]))]_vars
\* a host's room mounted for the name typed as " b ", and a document created by "a.b"
C31_Witness ==
    /\ activeTournament # Null /\ activeTournament[1].isHost
    /\ nameInput["peer"] = " b " /\ tournament.creatorId = "b"
    /\ DOMAIN tournament.players = {"b"}
    /\ documents = 1 /\ doc.creatorId = "a.b"
    /\ DOMAIN doc.players = {"a.b"}

\* C32: a create or join handler that finds the name empty or made of white space
\* only, or (joining a peer room) the room code so, sets the lobby's inline error
\* and changes nothing else: no room is mounted, no peer endpoint is opened, no
\* document is added or written, and the typed texts stay as they are.
Blank == {"", " "}
OnlyErrorSet(k) ==
    /\ error'[k] # Null
    /\ \A j \in Lobbies \ {k} : error'[j] = error[j]
    /\ (IF k = "peer" THEN activeTournament' ELSE joinedTournament') = Null
    /\ UNCHANGED <<activeTournament, joinedTournament, endpoints, documents>>
    /\ UNCHANGED <<nameInput, roomCode, transport, peerVars, storeVars, scoreVars, mcqVars, chatVars>>
C32_ValidationNoEffect ==
    [][/\ \A g \in GameTypes, q \in DeckOutcomes :
            (handleCreateRoom(g, q) /\ nameInput["peer"] \in Blank) => OnlyErrorSet("peer")
       /\ (handleJoinRoom /\ (nameInput["peer"] \in Blank \/ roomCode \in Blank))
            => OnlyErrorSet("peer")
       /\ \A g \in GameTypes, q \in DeckOutcomes, added \in BOOLEAN :
            (handleCreateTournament(g, q, added) /\ nameInput["store"] \in Blank)
            => OnlyErrorSet("store")
       /\ (handleJoinTournament /\ nameInput["store"] \in Blank) => OnlyErrorSet("store")]_vars
\* the peer lobby refused a join for its white-space room code and the store lobby
\* refused a join for its white-space name: both show their error and no room
C32_Witness ==
    /\ roomCode = " " /\ nameInput["peer"] = "a"
    /\ error["peer"] = <<"Please enter a room code.">>
    /\ activeTournament = Null /\ endpoints = 0
    /\ nameInput["store"] = " "
    /\ error["store"] = <<"Please enter your name to join.">>
    /\ joinedTournament = Null /\ documents = 1

\* C33: store transport: when the subscription of a room reports that the document
\* does not exist, the room sets its not-found error and issues no write in that
\* step; from then on the error stays set (the session shows only the error view)
\* and the room issues no further write: no join, no player update, no start, and
\* no finish write from a finish check that was still outstanding.
NotFoundDelivered(p) == StoreSnapshot(p) /\ doc = Null
IssuesNothing(p) ==
    \/ spending'[p] = spending[p]
    \/ spending[p] # <<>> /\ spending'[p] = Tail(spending[p])
C33_NotFoundIsTerminal ==
    [][\A p \in Participants :
          /\ NotFoundDelivered(p) =>
                /\ roomError'[p] = <<"Tournament not found or has been deleted.">>
                /\ spending' = spending /\ slocal' = slocal
          /\ roomError[p] # Null => (roomError'[p] # Null /\ IssuesNothing(p))]_vars
\* the second participant was playing when the document went away: its room shows
\* the error over its last snapshot, with a finish check of its last answer still
\* outstanding
C33_Witness ==
    /\ transport = "store" /\ doc = Null
    /\ roomError["p2"] = <<"Tournament not found or has been deleted.">>
    /\ slocal["p2"] # <<>> /\ slocal["p2"][1].status = "playing"
    /\ schecks["p2"] > 0

\* C34: in every reachable state of either transport, status = finished implies
\* that every player in the player map has isFinished = true, whatever joins race
\* with or follow the finish and however the store's finish check interleaves
\* with other participants' writes.
AllDoneWhenFinished(t) ==
    t.status = "finished" => \A n \in DOMAIN t.players : t.players[n].isFinished
C34_FinishedMeansAllDone == AllDoneWhenFinished(tournament) /\ AllDoneWhenFinished(doc)

\* C35: peer transport: the host is never in a state where status = playing while
\* its player map is non-empty and every player in it is finished; in particular
\* the step that handles the close of the last unfinished follower's connection,
\* and removes that player, sets status to finished.
Stalled(t) ==
    /\ t.status = "playing"
    /\ DOMAIN t.players # {}
    /\ \A n \in DOMAIN t.players : t.players[n].isFinished
LastUnfinishedLeft ==
    /\ CloseApplied
    /\ tournament.status = "playing"
    /\ ~Stalled(tournament)
    /\ DOMAIN tournament'.players # {}
    /\ AllFinishedAfter
C35_NeverStallsInPlaying ==
    /\ [](transport = "peer" => ~Stalled(tournament))
    /\ [][LastUnfinishedLeft => tournament'.status = "finished"]_vars

\* C36: peer transport: in every state of the host its own entry is in the player
\* map, under the creator's name as key and with the creator's name as id: no
\* JOIN_REQUEST of a follower replaces it and no connection close removes it.
HostEntryKept ==
    /\ HostName \in DOMAIN tournament.players
    /\ tournament.players[HostName].id = HostName
    /\ tournament.players[HostName].name = HostName
C36_HostEntryKept == transport = "peer" => HostEntryKept

\* C37: store transport: every answer write the store applies for a player moves
\* that player's stored currentQuestionIndex up by exactly one and the stored score
\* up by that answer's increment (so never down), also when the answer was
\* submitted before the submitter's subscription had delivered the previous write.
PlayerWriteApplied(p) ==
    /\ spending[p] # <<>>
    /\ Head(spending[p]).op = "player"
    /\ Head(spending[p]).id \in DOMAIN doc.players
    /\ StoreApply(p)
AdvancesByOne(n) ==
    /\ doc'.players[n].currentQuestionIndex = doc.players[n].currentQuestionIndex + 1
    /\ doc'.players[n].score >= doc.players[n].score
C37_EachAnswerCounts ==
    [][\A p \in Participants : PlayerWriteApplied(p) => AdvancesByOne(Head(spending[p]).id)]_vars

\* C38: match modes: two players who submit the same selected id after the same
\* elapsed time, for the same question and from the same score, end with the same
\* score, index and finished flag, in the host's snapshot and in the store's
\* document, whatever distractors their rooms drew and in whatever order their
\* rooms showed the options.
SameChoice(n1, n2) ==
    /\ submitted[n1] # <<>> /\ submitted[n2] # <<>>
    /\ submitted[n1][1].answer = submitted[n2][1].answer
    /\ submitted[n1][1].timeTaken = submitted[n2][1].timeTaken
    /\ submitted[n1][1].index = submitted[n2][1].index
    /\ submitted[n1][1].scoreBefore = submitted[n2][1].scoreBefore
SameOutcome(t, n1, n2) ==
    /\ t.players[n1].score = t.players[n2].score
    /\ t.players[n1].currentQuestionIndex = t.players[n2].currentQuestionIndex
    /\ t.players[n1].isFinished = t.players[n2].isFinished
C38_VerdictByIdOnly ==
    transport = "mcq" =>
        \A n1 \in Names, n2 \in Names :
            SameChoice(n1, n2) => SameOutcome(tournament, n1, n2) /\ SameOutcome(doc, n1, n2)
\* both players selected the first question's id and submitted after 500 ms; a's
\* room had drawn another distractor than b's and showed the right option in
\* another place; both scored 975
OptionIds(options) == {options[i].id : i \in DOMAIN options}
C38_Witness ==
    /\ transport = "mcq"
    /\ SameChoice(HostName, "b")
    /\ submitted[HostName][1].answer = CardId(1)
    /\ submitted[HostName][1].timeTaken = 500
    /\ OptionIds(submitted[HostName][1].options) # OptionIds(submitted["b"][1].options)
    /\ submitted[HostName][1].options[1].id = CardId(1)
    /\ submitted["b"][1].options[1].id # CardId(1)
    /\ tournament.players[HostName].score = 975 /\ tournament.players["b"].score = 975
    /\ doc.players[HostName].score = 975 /\ doc.players["b"].score = 975

\* C39: chat: while a room lasts (one hostId), the host's message list only grows
\* at its end: a CHAT_MESSAGE the host handles, and a message the host sends
\* itself, becomes the last element, and nothing else changes the list; and the
\* message list every client shows for that room is a prefix of the list the
\* host holds at that moment.
SameRoom(a, b) == a # Null /\ b # Null /\ a[1].hostId = b[1].hostId
FollowersHoldPrefix ==
    \A u \in ChatUsers, f \in ChatClients :
        isHost[u] /\ SameRoom(chatState[u], chatState[f])
            => IsPrefix(chatState[f][1].messages, chatState[u][1].messages)
HostListGrowsAtEnd ==
    \A u \in ChatUsers :
        isHost[u] /\ SameRoom(chatState[u], chatState'[u]) =>
            \/ chatState'[u][1].messages = chatState[u][1].messages
            \/ /\ Len(chatState'[u][1].messages) = Len(chatState[u][1].messages) + 1
               /\ IsPrefix(chatState[u][1].messages, chatState'[u][1].messages)
HandledBecomesLast ==
    \A u \in ChatUsers :
        /\ \A f \in ChatClients, i \in 1..(MaxChatPeers + MaxChatMessages) :
              (/\ handleHostData(u, f, i)
               /\ chatState[u] # Null
               /\ chatToHost[f][i].type = "CHAT_MESSAGE")
              => chatState'[u][1].messages = Append(chatState[u][1].messages, chatToHost[f][i].payload)
        /\ \A text \in ChatTexts :
              sendMessage(u, text) /\ isHost[u]
              => chatState'[u][1].messages = Append(chatState[u][1].messages, chatMessage(u, text))
C39_ChatHostAuthoritative ==
    []FollowersHoldPrefix /\ [][HostListGrowsAtEnd /\ HandledBecomesLast]_vars
\* the host holds b's message followed by its own; b shows both, c still shows
\* the first only
C39_Witness ==
    /\ transport = "chat"
    /\ isHost[HostName]
    /\ SameRoom(chatState[HostName], chatState["b"])
    /\ SameRoom(chatState[HostName], chatState["c"])
    /\ Len(chatState[HostName][1].messages) = 2
    /\ chatState[HostName][1].messages[1].name = "b"
    /\ chatState[HostName][1].messages[2].name = HostName
    /\ chatState["b"][1].messages = chatState[HostName][1].messages
    /\ Len(chatState["c"][1].messages) = 1

====
